---- MODULE Spec2Model ----
(***************************************************************************)
(* Job orchestration and progress reporting of the Dicoding scraper        *)
(* backend: admission through ARQ, the worker's scrape_task, the progress  *)
(* key, the unified job status, the SSE status stream and the paginated    *)
(* extraction loop.                                                        *)
(*                                                                         *)
(* The module holds several specifications over one set of variables.     *)
(* Each specification moves the variables of its own component and leaves  *)
(* the others at their initial value:                                      *)
(*   SpecPaging   one paginated traversal against an arbitrary page feed   *)
(*   Spec         one job, every position of its thread, worker restarts    *)
(*   SpecPool     four jobs competing for the worker's three slots          *)
(*   SpecStatus   two jobs and status polls racing with the worker          *)
(*   SpecStream   one job and one status stream                             *)
(*   SpecApi      one job, a status poll and a stream reading it            *)
(*   SpecBeat     one job and one stream whose rounds are observed          *)
(*   SpecSecrets  submissions with credentials and every response read     *)
(*   SpecFifo     three jobs accepted in one or several milliseconds        *)
(*   SpecAggregate  one status built from arbitrary lookup answers          *)
(*   SpecDecode   one stored progress value read back                      *)
(*   SpecWrite    one progress report stored                               *)
(*   SpecExport   two jobs saving their export                             *)
(*   SpecFiles    one request to a data endpoint over a directory          *)
(*   SpecList     one traversal of a fixed paginated list                  *)
(*   SpecLive     one job and one stream under fair scheduling             *)
(*   SpecLogin    one login with submitted or environment credentials      *)
(*   SpecKept     one job's progress and result entries as time passes     *)
(*   SpecRepoll   one job polled again and again across restarts           *)
(*   SpecFast     one export built from arbitrary bulk results             *)
(***************************************************************************)
EXTENDS Integers, Sequences, FiniteSets, TLC

VARIABLES
    pg,         \* the PagingSession of one traversal and the page feed it reads
    clock,      \* the store's millisecond clock, as far as enqueue scores need it
    queue,      \* ARQ queue (sorted set): job id -> score
    jobdef,     \* ARQ job keys: job id -> the submitted call
    in_progress,\* ARQ in-progress keys
    results,    \* ARQ result keys: job id -> stored outcome
    used,       \* the job ids drawn so far (a random id is never drawn twice)
    retry,      \* ARQ retry counters: job id -> number of starts
    progress,   \* job_progress:<id> keys: job id -> last snapshot written
    worker,     \* the worker process: up or down
    task,       \* run_job tasks of the worker: job id -> where scrape_task is
    thread,     \* scraper threads attached to the worker's loop: job id -> state
    orphans,    \* scraper threads left behind by a worker that shut down
    leaked,     \* remote browser sessions whose run_scraper ended without quit
    events,     \* running execution -> the events handed to handle_scrape_event
    poll,       \* one GET /scrape/status/<id> request in flight
    resp,       \* the last unified status a poll returned
    stream,     \* one GET /scrape/stream/<id> connection
    agg,        \* one status built from given answers of the sub-lookups
    dec,        \* one progress value and what reading it gave
    wr,         \* one progress report and the snapshot stored for it
    files,      \* the output directory (file name -> the job that wrote it
                \* last), the file each job reported, and the UTC second
    web,        \* one GET /students or GET /files/<name> request
    answer,     \* the last response of POST /scrape or GET /scrape/status
    accepted,   \* the job ids in the order POST /scrape accepted them
    login,      \* one run_scraper call up to the outcome of its login
    kept,       \* the result key and the progress key of one finished job
    fast        \* one _build_export_json call over given bulk results

pagingVars == <<pg>>

storeVars == <<clock, queue, jobdef, used, accepted, in_progress, results, retry,
              progress>>

workerVars == <<worker, task, thread, orphans, leaked, events>>

calcVars == <<agg, dec, wr, files, web, login, kept, fast>>

apiVars == <<poll, resp, stream, answer, calcVars>>

vars == <<pg, clock, queue, jobdef, used, in_progress, results, retry, progress,
          worker, task, thread, orphans, leaked, events, poll, resp, stream, agg,
          dec, wr, files, web, answer, accepted, login, kept, fast>>

(***************************************************************************)
(* Generic helpers                                                         *)
(***************************************************************************)
Range(s) == {s[i] : i \in 1..Len(s)}

Max(a, b) == IF a >= b THEN a ELSE b

Min(a, b) == IF a <= b THEN a ELSE b

\* Keys of a store are the domain of a function: set a key, delete a key.
Put(f, k, v) == [x \in DOMAIN f \cup {k} |-> IF x = k THEN v ELSE f[x]]

Del(f, k) == [x \in DOMAIN f \ {k} |-> f[x]]

Empty == [x \in {} |-> 0]

(***************************************************************************)
(* Initial values of the store and of the worker                           *)
(***************************************************************************)
StoreInit ==
    /\ clock = 0
    /\ queue = Empty
    /\ jobdef = Empty
    /\ used = {}
    /\ accepted = <<>>
    /\ in_progress = {}
    /\ results = Empty
    /\ retry = Empty
    /\ progress = Empty

WorkerInit ==
    /\ worker = "up"
    /\ task = Empty
    /\ thread = Empty
    /\ orphans = 0
    /\ leaked = 0
    /\ events = Empty

NoPoll ==
    [pc |-> "idle", job |-> 0, status |-> "none", waiting_index |-> 0, seen |-> {}]

NoStream ==
    [pc |-> "idle", job |-> 0, status |-> "none", connected |-> FALSE,
     last_payload |-> Empty, last_event |-> "none", since_heartbeat |-> 0,
     polled |-> Empty, told |-> FALSE, beat |-> FALSE,
     timed |-> FALSE, quiet |-> 0,
     terminal_events |-> 0, terminal_seen |-> FALSE,
     data_after_terminal |-> FALSE]

NoAggregate ==
    [pc |-> "idle", status |-> "none", position |-> 0, prog |-> {},
     info |-> [type |-> "absent", success |-> FALSE, error_type |-> ""],
     out |-> Empty]

NoDecode == [pc |-> "idle"]

NoWrite == [pc |-> "idle"]

\* An empty output directory, no export done, at second 0.
NoFiles == [dir |-> Empty, written |-> Empty, second |-> 0]

NoRequest == [pc |-> "idle"]

NoLogin == [pc |-> "idle"]

NoKept == [pc |-> "idle"]

NoFast == [pc |-> "idle"]

ApiInit ==
    /\ poll = NoPoll
    /\ resp = Empty
    /\ stream = NoStream
    /\ answer = Empty
    /\ login = NoLogin
    /\ kept = NoKept
    /\ fast = NoFast
    /\ agg = NoAggregate
    /\ dec = NoDecode
    /\ wr = NoWrite
    /\ files = NoFiles
    /\ web = NoRequest

(***************************************************************************)
(* PAGINATED EXTRACTION  (services/scraper.py)                             *)
(*                                                                         *)
(* A row is what one read of the viewport returns for one card: its        *)
(* visible content and whether the raw text still carries extra white      *)
(* space.  The fingerprint is the JSON text of the normalised fields, so    *)
(* two rows with the same content have the same fingerprint whatever their  *)
(* white space.  The feed hands out new contents in increasing order       *)
(* (content k is the k-th distinct content the site ever showed), which is  *)
(* only a naming of the contents: any content may be shown again later.     *)
(***************************************************************************)
MAX_PAGINATION_STEPS == 300

STALE_LIMIT == 2

\* While fewer than this many contents were handed out the feed is arbitrary:
\* pages of up to two rows, new rows after stale rounds.  Beyond it the feed
\* shows one row a page and, once it has stalled, shows nothing new any more.
VariedFeedUntil == 4

Kinds == {"daily_pages", "point_pages", "daily_fast", "point_fast"}

PerStudentKinds == {"daily_pages", "point_pages"}

Row(c, p) == [content |-> c, pad |-> p]

\* _normalize_space: collapse white space, so padding never reaches the key.
NormalizeSpace(row) == row.content

\* key = json.dumps({...normalised fields...}, sort_keys=True)
KeyOf(row) == NormalizeSpace(row)

\* items.append(json.loads(key)): the stored item is the normalised record.
ItemOf(key) == key

\* A deduplication that forgets to consult the seen set.
RECURSIVE CollectNoDedup(_, _, _)
CollectNoDedup(rows, items, seen) ==
    IF rows = <<>> THEN [items |-> items, seen |-> seen]
    ELSE LET key == KeyOf(Head(rows))
         IN  CollectNoDedup(Tail(rows), Append(items, ItemOf(key)), seen \cup {key})

\* for entry in entries: if key in seen: continue; seen.add(key); items.append(..)
RECURSIVE Collect(_, _, _)
Collect(rows, items, seen) ==
    IF rows = <<>> THEN [items |-> items, seen |-> seen]
    ELSE LET key == KeyOf(Head(rows))
         IN  IF key \in seen
             THEN Collect(Tail(rows), items, seen)
             ELSE Collect(Tail(rows), Append(items, ItemOf(key)), seen \cup {key})

\* The contents a page may repeat: the oldest and the newest handed out so far.
OldContents(n) == IF n = 0 THEN {} ELSE {1, n}

\* The pages the feed may show when n contents were handed out so far and the
\* last `stale` rounds added nothing.
Pages(n, stale) ==
    LET fresh == Row(n + 1, FALSE)
        olds  == {Row(c, p) : c \in OldContents(n), p \in BOOLEAN}
        one   == {<<>>, <<fresh>>} \cup {<<o>> : o \in olds}
        two   == {<<fresh, Row(n + 1, TRUE)>>, <<fresh, Row(n + 2, FALSE)>>}
                 \cup {<<o, fresh>> : o \in olds}
                 \cup {<<fresh, o>> : o \in olds}
    IN  IF n < VariedFeedUntil THEN one \cup two
        ELSE IF stale = 0 THEN one
        ELSE one \ {<<fresh>>}

\* The number of new contents a page hands out.
Handed(page, n) == Cardinality({page[i].content : i \in 1..Len(page)} \ (1..n))

NextStates == {"absent", "disabled", "enabled"}

PagingInit(kind) ==
    [kind         |-> kind,
     pc           |-> "loop",
     step         |-> 0,        \* iterations of the for loop completed
     rounds       |-> 0,        \* read rounds performed
     items        |-> <<>>,
     seen         |-> {},
     stale_rounds |-> 0,
     exit         |-> "none",
     next_seen    |-> "none",   \* the next control as the last round found it
     dup_skipped  |-> FALSE,    \* some row was skipped as already seen
     issued       |-> 0,        \* contents the feed handed out so far
     shown        |-> {},       \* every fingerprint any round has read
     last_add     |-> 0,        \* the last round that added a fingerprint
     wait         |-> "none"]   \* how the wait after the last click ended

\* A loop body that never looks at the stale-round counter.
PagingRoundNoStaleExit(page, nxt, waited) ==
    LET got   == Collect(page, pg.items, pg.seen)
        added == Cardinality(got.seen) # Cardinality(pg.seen)
        base  == [pg EXCEPT !.rounds = @ + 1,
                            !.items = got.items,
                            !.seen = got.seen,
                            !.stale_rounds = IF added THEN 0 ELSE @ + 1,
                            !.next_seen = nxt,
                            !.dup_skipped = @ \/ (Len(got.items) - Len(pg.items) < Len(page)),
                            !.issued = @ + Handed(page, pg.issued),
                            !.shown = @ \cup {KeyOf(page[i]) : i \in 1..Len(page)},
                            !.last_add = IF added THEN pg.rounds + 1 ELSE @]
    IN  IF nxt = "absent"
        THEN [base EXCEPT !.pc = "done", !.exit = "no_next"]
        ELSE IF nxt = "disabled"
        THEN [base EXCEPT !.pc = "done", !.exit = "disabled"]
        ELSE [base EXCEPT !.step = @ + 1, !.wait = waited]

\* A loop body that gives up when the content did not change after the click.
PagingRoundStopsOnTimeout(page, nxt, waited) ==
    LET got   == Collect(page, pg.items, pg.seen)
        added == Cardinality(got.seen) # Cardinality(pg.seen)
        stale == IF added THEN 0 ELSE pg.stale_rounds + 1
        base  == [pg EXCEPT !.rounds = @ + 1,
                            !.items = got.items,
                            !.seen = got.seen,
                            !.stale_rounds = stale,
                            !.next_seen = nxt,
                            !.dup_skipped = @ \/ (Len(got.items) - Len(pg.items) < Len(page)),
                            !.issued = @ + Handed(page, pg.issued),
                            !.shown = @ \cup {KeyOf(page[i]) : i \in 1..Len(page)},
                            !.last_add = IF added THEN pg.rounds + 1 ELSE @]
    IN  IF nxt = "absent"
        THEN [base EXCEPT !.pc = "done", !.exit = "no_next"]
        ELSE IF nxt = "disabled" \/ stale >= STALE_LIMIT
        THEN [base EXCEPT !.pc = "done",
                          !.exit = IF nxt = "disabled" THEN "disabled" ELSE "stale"]
        ELSE IF waited = "timeout"
        THEN [base EXCEPT !.step = @ + 1, !.wait = waited,
                          !.pc = "done", !.exit = "stale"]
        ELSE [base EXCEPT !.step = @ + 1, !.wait = waited]

\* A loop body that stops at the first round that adds nothing.
PagingRoundStopsOnFirstStale(page, nxt, waited) ==
    LET got   == Collect(page, pg.items, pg.seen)
        added == Cardinality(got.seen) # Cardinality(pg.seen)
        stale == IF added THEN 0 ELSE pg.stale_rounds + 1
        base  == [pg EXCEPT !.rounds = @ + 1,
                            !.items = got.items,
                            !.seen = got.seen,
                            !.stale_rounds = stale,
                            !.next_seen = nxt,
                            !.dup_skipped = @ \/ (Len(got.items) - Len(pg.items) < Len(page)),
                            !.issued = @ + Handed(page, pg.issued),
                            !.shown = @ \cup {KeyOf(page[i]) : i \in 1..Len(page)},
                            !.last_add = IF added THEN pg.rounds + 1 ELSE @]
    IN  IF nxt = "absent"
        THEN [base EXCEPT !.pc = "done", !.exit = "no_next"]
        ELSE IF nxt = "disabled" \/ stale >= 1
        THEN [base EXCEPT !.pc = "done",
                          !.exit = IF nxt = "disabled" THEN "disabled" ELSE "stale"]
        ELSE [base EXCEPT !.step = @ + 1, !.wait = waited]

\* One iteration of the loop body: read, deduplicate, count stale rounds,
\* look at the next control, and either stop or click and wait; `waited` is
\* how that wait ends.
PagingRoundWith(page, nxt, waited) ==
    LET got   == Collect(page, pg.items, pg.seen)
        added == Cardinality(got.seen) # Cardinality(pg.seen)
        stale == IF added THEN 0 ELSE pg.stale_rounds + 1
        base  == [pg EXCEPT !.rounds = @ + 1,
                            !.items = got.items,
                            !.seen = got.seen,
                            !.stale_rounds = stale,
                            !.next_seen = nxt,
                            !.dup_skipped = @ \/ (Len(got.items) - Len(pg.items) < Len(page)),
                            !.issued = @ + Handed(page, pg.issued),
                            !.shown = @ \cup {KeyOf(page[i]) : i \in 1..Len(page)},
                            !.last_add = IF added THEN pg.rounds + 1 ELSE @]
    IN  IF nxt = "absent"
        THEN [base EXCEPT !.pc = "done", !.exit = "no_next"]
        ELSE IF nxt = "disabled" \/ stale >= STALE_LIMIT
        THEN [base EXCEPT !.pc = "done",
                          !.exit = IF nxt = "disabled" THEN "disabled" ELSE "stale"]
        ELSE [base EXCEPT !.step = @ + 1, !.wait = waited]

\* After the click the per-student traversals wait, up to a timeout, for the
\* section's text to change; the bulk traversals sleep a fixed delay.
WaitOutcomes(kind) ==
    IF kind \in PerStudentKinds THEN {"changed", "timeout"} ELSE {"slept"}

PagingRound ==
    /\ pg.pc = "loop"
    /\ pg.step < MAX_PAGINATION_STEPS
    /\ \E page \in Pages(pg.issued, pg.stale_rounds), nxt \in NextStates,
          waited \in WaitOutcomes(pg.kind) :
          pg' = PagingRoundWith(page, nxt, waited)
    /\ UNCHANGED <<storeVars, workerVars, apiVars>>

\* if student_index >= len(sections): break   (per-student traversals only)
PagingSectionGone ==
    /\ pg.pc = "loop"
    /\ pg.step < MAX_PAGINATION_STEPS
    /\ pg.kind \in PerStudentKinds
    /\ pg' = [pg EXCEPT !.pc = "done", !.exit = "no_section"]
    /\ UNCHANGED <<storeVars, workerVars, apiVars>>

\* A call to the browser raises (the session died, the element went stale):
\* nothing in the traversal catches it.
PagingRaises ==
    /\ pg.pc = "loop"
    /\ pg.step < MAX_PAGINATION_STEPS
    /\ pg' = [pg EXCEPT !.pc = "done", !.exit = "raised"]
    /\ UNCHANGED <<storeVars, workerVars, apiVars>>

\* for _ in range(MAX_PAGINATION_STEPS) / for (step < maxSteps) runs out.
PagingCap ==
    /\ pg.pc = "loop"
    /\ pg.step = MAX_PAGINATION_STEPS
    /\ pg' = [pg EXCEPT !.pc = "done", !.exit = "cap"]
    /\ UNCHANGED <<storeVars, workerVars, apiVars>>

\* The value of pg in the specifications that run no traversal.
PagingIdle == [PagingInit("daily_pages") EXCEPT !.pc = "idle"]

InitPaging ==
    /\ \E kind \in Kinds : pg = PagingInit(kind)
    /\ StoreInit
    /\ WorkerInit
    /\ ApiInit

NextPaging == PagingRound \/ PagingSectionGone \/ PagingRaises \/ PagingCap

SpecPaging == InitPaging /\ [][NextPaging]_vars

(***************************************************************************)
(* A PAGINATED LIST UNDER THE PER-STUDENT TRAVERSALS                       *)
(*                                                                         *)
(* The list is fixed before the traversal starts: `pages` pages of one row *)
(* each, the next control enabled on every page but the last and disabled   *)
(* on the last.  The pages in `repeats` show a row of page 1 again; every   *)
(* other page shows a row no earlier page showed.  An activation of the     *)
(* next control shows the following page; the list may still show the old   *)
(* page when the bounded wait ends, and the next round then reads that page *)
(* once more.                                                               *)
(***************************************************************************)
\* The longest list whose repeated pages are chosen freely.
ShortList == 4

\* How many times a traversal finds the list unchanged after its wait.
MaxSlow == 1

ListLengths == (1..ShortList) \cup {MAX_PAGINATION_STEPS - 1, MAX_PAGINATION_STEPS}

\* The distinct contents on pages 1..k of a list with the repeated pages D.
FreshUpTo(k, D) == k - Cardinality(D \cap (1..k))

PageAt(k, D) ==
    IF k \in D THEN <<Row(1, TRUE)>> ELSE <<Row(FreshUpTo(k, D), FALSE)>>

\* Every fingerprint that appears on pages 1..k.
KeysUpTo(k, D) == {KeyOf(PageAt(i, D)[1]) : i \in 1..k}

InitList ==
    /\ \E kind \in PerStudentKinds, n \in ListLengths, D \in SUBSET (2..ShortList) :
          /\ D \subseteq 1..n
          /\ pg = PagingInit(kind) @@
                  [pages |-> n, repeats |-> D, pos |-> 1, read |-> 0, slow |-> 0]
    /\ StoreInit
    /\ WorkerInit
    /\ ApiInit

\* One iteration of the loop over the list: the round reads the page on
\* display; after the click the wait ends with the following page on display
\* (`arrived`) or, on its timeout, possibly with the old one.
ListRound ==
    /\ pg.pc = "loop"
    /\ pg.step < MAX_PAGINATION_STEPS
    /\ \E waited \in WaitOutcomes(pg.kind), arrived \in BOOLEAN :
          /\ waited = "changed" => arrived
          /\ ~arrived => pg.slow < MaxSlow
          /\ LET nxt   == IF pg.pos < pg.pages THEN "enabled" ELSE "disabled"
                 after == PagingRoundWith(PageAt(pg.pos, pg.repeats), nxt, waited)
                 read  == [after EXCEPT !.read = pg.pos]
             IN  pg' = IF read.pc # "loop" THEN read
                       ELSE IF arrived THEN [read EXCEPT !.pos = @ + 1]
                       ELSE [read EXCEPT !.slow = @ + 1]
    /\ UNCHANGED <<storeVars, workerVars, apiVars>>

NextList == ListRound \/ PagingCap

SpecList == InitList /\ [][NextList]_vars

(***************************************************************************)
(* Properties of the paginated extraction                                  *)
(***************************************************************************)

\* C5: the item list of a traversal holds every fingerprint that any round
\* read exactly once, in the order of first encounter (contents are named in
\* the order the feed first shows them, so that order is 1, 2, 3, ...), and
\* its length is the size of the seen set.
C5_EachFingerprintOnceInOrder ==
    /\ Cardinality(Range(pg.items)) = Len(pg.items)
    /\ Range(pg.items) = pg.shown
    /\ \A i \in 1..Len(pg.items) : pg.items[i] = i
    /\ Len(pg.items) = Cardinality(pg.seen)

\* A finished traversal that read rows again after it had collected them.
C5_Witness ==
    /\ pg.pc = "done"
    /\ pg.dup_skipped
    /\ Len(pg.items) >= 3
    /\ pg.rounds >= 3

\* C6: a traversal performs at most MAX_PAGINATION_STEPS read rounds, goes on
\* after a round only when that round found the next control enabled and was
\* not the second stale round in a row, has each unfinished round counted
\* against the step budget, and is never more than 2 rounds past the last round that
\* added a fingerprint.
C6_TraversalTerminates ==
    /\ pg.rounds <= MAX_PAGINATION_STEPS
    /\ pg.rounds - pg.last_add <= STALE_LIMIT
    /\ pg.pc = "loop" =>
          /\ pg.step = pg.rounds
          /\ pg.stale_rounds < STALE_LIMIT
          /\ pg.rounds > 0 => pg.next_seen = "enabled"
          /\ pg.step <= MAX_PAGINATION_STEPS
    /\ pg.pc = "done" =>
          /\ pg.exit = "no_next" => pg.next_seen = "absent"
          /\ pg.exit = "disabled" => pg.next_seen = "disabled"
          /\ pg.exit = "stale" =>
                pg.next_seen = "enabled" /\ pg.stale_rounds = STALE_LIMIT
          /\ pg.exit = "cap" => pg.rounds = MAX_PAGINATION_STEPS

\* The next control stayed enabled, the content stopped changing, and the
\* traversal ended two rounds after the last round that added a row.
C6_Witness ==
    /\ pg.pc = "done"
    /\ pg.exit = "stale"
    /\ pg.last_add >= 1
    /\ pg.rounds = pg.last_add + STALE_LIMIT

\* C28: the next control is activated in a round only if that round found it
\* enabled with the stale-round counter below 2; a round that adds a
\* fingerprint resets the stale-round counter; and after an activation the
\* next step of the traversal is always another read round.
C28_ActivationThenAnotherRound ==
    [][/\ pg'.step = pg.step + 1 =>
             /\ pg'.rounds = pg.rounds + 1
             /\ pg'.next_seen = "enabled"
             /\ pg'.stale_rounds < 2
       /\ Cardinality(pg'.seen) > Cardinality(pg.seen) => pg'.stale_rounds = 0
       /\ (pg.pc = "loop" /\ pg.step >= 1 /\ pg' # pg) =>
             pg'.rounds = pg.rounds + 1]_vars

\* C28, amended: as above, but after an activation the traversal goes on to
\* its next iteration whatever the wait gave, and that iteration is another
\* read round unless the step budget is used up, the section is gone or a
\* call to the browser raises.
C28_ActivationThenNextIteration ==
    [][/\ pg'.step = pg.step + 1 =>
             /\ pg'.rounds = pg.rounds + 1
             /\ pg'.next_seen = "enabled"
             /\ pg'.stale_rounds < 2
             /\ pg'.pc = "loop"
             /\ pg'.wait \in WaitOutcomes(pg.kind)
       /\ Cardinality(pg'.seen) > Cardinality(pg.seen) => pg'.stale_rounds = 0
       /\ (pg.pc = "loop" /\ pg.step >= 1 /\ pg' # pg) =>
             \/ pg'.rounds = pg.rounds + 1
             \/ pg'.exit = "cap" /\ pg.step = MAX_PAGINATION_STEPS
             \/ pg'.exit = "no_section" /\ pg.kind \in PerStudentKinds
             \/ pg'.exit = "raised"]_vars

\* The wait after the last click timed out, another round was read all the
\* same, and it ended the traversal.
C28_Witness ==
    /\ pg.pc = "done"
    /\ pg.kind \in PerStudentKinds
    /\ pg.wait = "timeout"
    /\ pg.step >= 1
    /\ pg.rounds = pg.step + 1

\* The step cap itself ends a traversal whose feed keeps growing.
PagingCapReached == pg.pc = "done" /\ pg.exit = "cap"

(***************************************************************************)
(* THE STORE AND THE QUEUE  (ARQ over Redis, as api/routes.py and          *)
(* worker.py use it)                                                       *)
(*                                                                         *)
(* enqueue_job is called without a job id, so ARQ draws a random one; it   *)
(* answers None exactly when a job key or a result key with that id        *)
(* exists.  The queue is a sorted set: jobs are ordered by enqueue         *)
(* millisecond, equal milliseconds by job id.  A job stays in the sorted   *)
(* set while it runs and leaves it when it is finished.                    *)
(***************************************************************************)
\* WorkerSettings.max_jobs
max_jobs == 3

\* WorkerSettings.max_tries
max_tries == 2

\* The job ids the random draw can produce: one job under Spec, several
\* under SpecPool.
PoolJobs == 4

OneJob == {1}

PoolIds == 1..PoolJobs

\* What a client may post as the request body.
EmailInputs == {"a@x.io", "not-an-email"}

PasswordInputs == {"", "pw"}

\* ScrapeRequest: email is an EmailStr, password is any str.
ValidScrapeRequest(email, password) == email # "not-an-email"

\* The queue in sorted-set order: by score, equal scores by member.
Before(a, b) == queue[a] < queue[b] \/ (queue[a] = queue[b] /\ a < b)

RECURSIVE SortedFrom(_)
SortedFrom(S) ==
    IF S = {} THEN <<>>
    ELSE LET first == CHOOSE a \in S : \A b \in S \ {a} : Before(a, b)
         IN  <<first>> \o SortedFrom(S \ {first})

QueueOrder == SortedFrom(DOMAIN queue)

\* enqueue_job: None when the id is taken, else the job is stored and queued.
EnqueueRefused(id) == id \in DOMAIN jobdef \/ id \in DOMAIN results

\* enqueue_job accepted: the job is stored under the new id and queued with
\* the enqueue millisecond as its score.
EnqueueJob(id, dt, email, password) ==
    /\ id \notin used
    /\ ~EnqueueRefused(id)
    /\ clock' = clock + dt
    /\ jobdef' = Put(jobdef, id, [email |-> email, password |-> password])
    /\ queue' = Put(queue, id, clock + dt)
    /\ used' = used \cup {id}
    /\ accepted' = Append(accepted, id)
    /\ UNCHANGED <<in_progress, results, retry, progress, workerVars, pagingVars>>

\* POST /scrape, accepted, as far as the store goes.
TriggerScrapeWith(ids, dts, email, password) ==
    /\ ValidScrapeRequest(email, password)
    /\ \E id \in ids, dt \in dts : EnqueueJob(id, dt, email, password)
    /\ UNCHANGED apiVars

\* A body that also carries the submitted call.
SubmitAnswerWithCall(id, email, password) ==
    [status |-> "queued", job_id |-> id, message |-> "Scraping job queued.",
     email |-> email, password |-> password]

\* The body POST /scrape answers with.
SubmitAnswer(id, email, password) ==
    [status |-> "queued", job_id |-> id, message |-> "Scraping job queued."]

\* POST /scrape, accepted, with its response.
TriggerScrapeAnswered(ids, dts, emails, passwords) ==
    /\ \E email \in emails, password \in passwords, id \in ids, dt \in dts :
          /\ ValidScrapeRequest(email, password)
          /\ EnqueueJob(id, dt, email, password)
          /\ answer' = SubmitAnswer(id, email, password)
    /\ UNCHANGED <<poll, resp, stream, calcVars>>

\* ids: the ids the draw can give; dts: the milliseconds that may have passed
\* since the last enqueue.
TriggerScrape(ids, dts, emails, passwords) ==
    \E email \in emails, password \in passwords :
        TriggerScrapeWith(ids, dts, email, password)

\* POST /scrape, answered 409: the drawn id is taken.  Nothing is stored.
TriggerScrapeConflict(ids) ==
    /\ \E id \in ids : EnqueueRefused(id)
    /\ UNCHANGED vars

\* POST /scrape, answered 422: the body fails validation.  Nothing is stored.
TriggerScrapeInvalid(emails, passwords) ==
    /\ \E email \in emails, password \in passwords :
          ~ValidScrapeRequest(email, password)
    /\ UNCHANGED vars

(***************************************************************************)
(* PROGRESS SNAPSHOTS  (worker.py, scrape_task)                            *)
(***************************************************************************)
\* current_step values c for which int((c / 100) * 100) is c - 1 in floating
\* point; for every other c in 0..100 it is c.
FloatLoss100 == {29, 57, 58}

\* on_step_progress: percent = int((current_step / max(total_steps, 1)) * 100)
PercentOf(current_step, total_steps) ==
    IF total_steps = 100
    THEN IF current_step \in FloatLoss100 THEN current_step - 1 ELSE current_step
    ELSE (current_step * 100) \div Max(total_steps, 1)

\* A payload that carries the percent as it was reported.
SnapshotAsReported(percent, message, current_step, total_steps) ==
    [percent      |-> percent,
     message      |-> message,
     current_step |-> current_step,
     total_steps  |-> total_steps]

\* write_progress: the payload stored under job_progress:<id>
Snapshot(percent, message, current_step, total_steps) ==
    [percent      |-> Max(0, Min(100, percent)),
     message      |-> message,
     current_step |-> current_step,
     total_steps  |-> total_steps]

\* on_step_progress(message, current_step, total_steps), once its write landed.
StepSnapshot(message, current_step, total_steps) ==
    Snapshot(PercentOf(current_step, total_steps), message, current_step, total_steps)

\* redis.set(..., ex=7200)
PROGRESS_TTL == 7200

\* One key for every job.
ProgressKeyUnknown(job_id) == 0

\* job_id = ctx.get("job_id") or "unknown"; f"job_progress:{job_id}".  ARQ
\* puts the id of the job into the context of every call, so the key is the
\* prefix followed by the id: the entry of the key is the entry of the id.
ProgressKey(job_id) == job_id

\* Keep results in Redis for 1 hour: keep_result = 3600
KEEP_RESULT == 3600

\* Timeout: 10 minutes per scrape job: job_timeout = 600
JOB_TIMEOUT == 600

\* A write whose key lives as long as a result.
StoredProgressForAnHour(percent, message, current_step, total_steps, now) ==
    [payload |-> Snapshot(percent, message, current_step, total_steps)
                    @@ [updated_at |-> now],
     ex |-> KEEP_RESULT]

\* write_progress at time now: the payload with its timestamp, and the expiry
\* the key is set with.
StoredProgress(percent, message, current_step, total_steps, now) ==
    [payload |-> Snapshot(percent, message, current_step, total_steps)
                    @@ [updated_at |-> now],
     ex |-> PROGRESS_TTL]

(***************************************************************************)
(* THE SCRAPER THREAD  (services/scraper.py, run_scraper)                  *)
(*                                                                         *)
(* The thread reports milestones through progress_callback(message,        *)
(* percent, 100).  A position is the number of milestone groups reported;   *)
(* the thread blocks on the browser after each group.  Writes scheduled by  *)
(* the thread reach the store in the order they were scheduled.             *)
(***************************************************************************)
\* percent of the per-student milestone: 35 + int((idx / (n - 1)) * 60), or 95
StudentPercent(idx, n) == IF n <= 1 THEN 95 ELSE 35 + (idx * 60) \div (n - 1)

RECURSIVE StudentSteps(_, _)
StudentSteps(idx, n) ==
    IF idx >= n THEN <<>>
    ELSE <<[message |-> "Processing student", step |-> StudentPercent(idx, n)]>>
         \o StudentSteps(idx + 1, n)

\* The milestones run_scraper and _build_export_json report, in order, for a
\* page that shows n students.  The first two are reported back to back.
Script(n) ==
    <<[message |-> "Navigating to login page...", step |-> 5],
      [message |-> "Logging in...", step |-> 10],
      [message |-> "Expanding student list...", step |-> 15],
      [message |-> "Extracting student data...", step |-> 20],
      [message |-> "Collecting daily check-ins in bulk...", step |-> 25],
      [message |-> "Collecting point histories in bulk...", step |-> 30]>>
    \o StudentSteps(0, n)
    \o <<[message |-> "Finalizing...", step |-> 100]>>

\* The position at which the login outcome is awaited.
LoginPos == 2

StudentCounts == {1, 2}

ThreadStart(n) == [pos |-> 0, st |-> "run", n |-> n]

Alive(j) == j \in DOMAIN thread /\ thread[j].st = "run"

\* Scraper threads that are executing run_scraper right now.
LiveThreads == Cardinality({j \in DOMAIN thread : thread[j].st = "run"}) + orphans

\* The thread runs on to a later position q and its last write lands; past
\* the login it has called on_progress("started", mentor_info).
RunScraperAdvance(j, points) ==
    /\ Alive(j)
    /\ \E q \in points :
          /\ q > thread[j].pos
          /\ q <= Len(Script(thread[j].n))
          /\ thread' = [thread EXCEPT ![j].pos = q]
          /\ events' = IF j \in DOMAIN events /\ thread[j].pos <= LoginPos /\ q > LoginPos
                       THEN [events EXCEPT ![j] = Append(@, "started")]
                       ELSE events
          /\ progress' = Put(progress, ProgressKey(j),
                StepSnapshot(Script(thread[j].n)[q].message,
                             Script(thread[j].n)[q].step, 100))
    /\ UNCHANGED <<clock, queue, jobdef, used, accepted, in_progress, results, retry,
                   worker, task, orphans, leaked, pagingVars, apiVars>>

\* A thread whose task is gone has nobody to hand its outcome to.
ThreadEnds(j, st) ==
    IF j \in DOMAIN task THEN [thread EXCEPT ![j].st = st] ELSE Del(thread, j)

\* run_scraper returns its summary after the last milestone.
RunScraperReturn(j) ==
    /\ Alive(j)
    /\ thread[j].pos = Len(Script(thread[j].n))
    /\ thread' = ThreadEnds(j, "ret")
    /\ UNCHANGED <<storeVars, worker, task, orphans, leaked, events, pagingVars, apiVars>>

\* The login wait ends with InvalidCredentialsError.
RunScraperInvalid(j) ==
    /\ Alive(j)
    /\ thread[j].pos = LoginPos
    /\ thread' = ThreadEnds(j, "inv")
    /\ UNCHANGED <<storeVars, worker, task, orphans, leaked, events, pagingVars, apiVars>>

\* The thread holds a remote browser session from _build_driver's return to
\* the driver.quit() of run_scraper's finally clause.
HoldsSession(j) == Alive(j) /\ thread[j].pos >= 1

\* How run_scraper can fail before its try block is entered:
\*   "no_session"    ValueError on the credentials, or webdriver.Remote raises
\*   "config_fails"  webdriver.Remote created the session and
\*                   driver.set_script_timeout raises: nothing quits it
BuildFaults == {"no_session", "config_fails"}

\* Any other exception leaves run_scraper, at one of the positions `faults`.
\* Past position 0 the finally clause quits the driver; at position 0 the
\* exception comes out of the lines before the try block, in one of the ways
\* `builds`.
RunScraperRaise(j, faults, builds) ==
    /\ Alive(j)
    /\ thread[j].pos \in faults
    /\ thread[j].pos < Len(Script(thread[j].n))
    /\ thread' = ThreadEnds(j, "exc")
    /\ IF thread[j].pos = 0
       THEN \E b \in builds :
               leaked' = IF b = "config_fails" THEN leaked + 1 ELSE leaked
       ELSE leaked' = leaked
    /\ UNCHANGED <<storeVars, worker, task, orphans, events, pagingVars, apiVars>>

\* A thread of a worker that shut down ends; its loop is closed, it writes
\* nothing.
OrphanEnds ==
    /\ orphans > 0
    /\ orphans' = orphans - 1
    /\ UNCHANGED <<storeVars, worker, task, thread, leaked, events, pagingVars, apiVars>>

(***************************************************************************)
(* THE WORKER  (ARQ worker under WorkerSettings, running scrape_task)      *)
(***************************************************************************)
\* The last job in queue order that no worker is running.
LastToStart ==
    LET waiting == {j \in DOMAIN queue : j \notin in_progress}
    IN  CHOOSE j \in waiting : \A o \in waiting \ {j} : Before(o, j)

\* The first job in queue order that no worker is running.
NextToStart ==
    LET waiting == {j \in DOMAIN queue : j \notin in_progress}
    IN  CHOOSE j \in waiting : \A o \in waiting \ {j} : Before(j, o)

\* A finish that stores the result and leaves the job in the queue.
FinishJobLeavesQueued(j, res) ==
    /\ results' = Put(results, j, res)
    /\ retry' = Del(retry, j)
    /\ in_progress' = in_progress \ {j}
    /\ UNCHANGED <<queue, jobdef>>

\* finish_job: the result is stored with the number of the try that produced
\* it, the job leaves queue and key space.
FinishJob(j, res) ==
    /\ results' = Put(results, j, res)
    /\ queue' = Del(queue, j)
    /\ jobdef' = Del(jobdef, j)
    /\ retry' = Del(retry, j)
    /\ in_progress' = in_progress \ {j}

\* A worker that starts a job whenever one waits, whatever it is running.
StartJobUnbounded ==
    /\ worker = "up"
    /\ \E j \in DOMAIN queue :
          /\ j \notin in_progress
          /\ j = NextToStart
          /\ retry' = Put(retry, j, IF j \in DOMAIN retry THEN retry[j] + 1 ELSE 1)
          /\ retry'[j] <= max_tries
          /\ in_progress' = in_progress \cup {j}
          /\ task' = Put(task, j, "begin")
    /\ UNCHANGED <<clock, used, accepted, queue, jobdef, results, progress, worker, thread,
                   orphans, leaked, events, pagingVars, apiVars>>

\* start_jobs / run_job: with a free slot, the next waiting job is marked in
\* progress, its try counter is raised and scrape_task is started.
StartJob ==
    /\ worker = "up"
    /\ Cardinality(DOMAIN task) < max_jobs
    /\ \E j \in DOMAIN queue :
          /\ j \notin in_progress
          /\ j = NextToStart
          /\ retry' = Put(retry, j, IF j \in DOMAIN retry THEN retry[j] + 1 ELSE 1)
          /\ retry'[j] <= max_tries
          /\ in_progress' = in_progress \cup {j}
          /\ task' = Put(task, j, "begin")
    /\ UNCHANGED <<clock, used, accepted, queue, jobdef, results, progress, worker, thread,
                   orphans, leaked, events, pagingVars, apiVars>>

\* run_job: a job picked up for the (max_tries + 1)-th time is failed unrun.
StartJobExhausted ==
    /\ worker = "up"
    /\ Cardinality(DOMAIN task) < max_jobs
    /\ \E j \in DOMAIN queue :
          /\ j \notin in_progress
          /\ j = NextToStart
          /\ j \in DOMAIN retry
          /\ retry[j] + 1 > max_tries
          /\ FinishJob(j, [returned |-> FALSE, kind |-> "max_retries",
                           extraction |-> "none", job_try |-> retry[j] + 1])
    /\ UNCHANGED <<clock, used, accepted, progress, workerVars, pagingVars, apiVars>>

\* scrape_task up to its await on the thread: the first snapshot, the thread.
ScrapeTaskBegin(j, counts) ==
    /\ j \in DOMAIN task
    /\ task[j] = "begin"
    /\ progress' = Put(progress, ProgressKey(j), Snapshot(1, "Initializing scraper...", 1, 100))
    /\ \E n \in counts : thread' = Put(thread, j, ThreadStart(n))
    /\ task' = [task EXCEPT ![j] = "thread"]
    /\ events' = Put(events, j, <<>>)
    /\ UNCHANGED <<clock, queue, jobdef, used, accepted, in_progress, results, retry,
                   worker, orphans, leaked, pagingVars, apiVars>>

\* The ways handle_scrape_event can go:
\*   "ok"           the audit row is written and the webhook step returns
\*   "log_fails"    the audit-log write raises: caught and printed
\*   "stats_fails"  DISCORD_STATS_WEBHOOK_URL is set and the daily-stats query
\*                  of send_webhook raises: nothing catches it
Sinks == {"ok", "log_fails", "stats_fails"}

HandleScrapeEventRaises(sink) == sink = "stats_fails"

\* How scrape_task leaves, given how the thread ended and how the event
\* handling of the branch taken went.  "ret" and "inv" return a dict; "exc"
\* re-raises the scraper's exception; "ret_x" and "inv_x" leave with the
\* exception of handle_scrape_event after a scrape that returned, or after
\* the invalid-credentials handler had written its snapshot.
LeaveOf(st, sink) ==
    IF ~HandleScrapeEventRaises(sink) THEN st
    ELSE CASE st = "ret" -> "ret_x"
           [] st = "inv" -> "inv_x"
           [] OTHER      -> "exc"

LeaveStates == {"ret", "inv", "exc", "ret_x", "inv_x"}

\* The events scrape_task hands to handle_scrape_event after the thread
\* ended: "completed" in the try body, "failed" in either handler; an
\* exception of the "completed" call is caught by `except Exception`, whose
\* handler hands over "failed" as well.
ClosingEvents(st, sink) ==
    CASE st = "ret" -> IF HandleScrapeEventRaises(sink)
                       THEN <<"completed", "failed">>
                       ELSE <<"completed">>
      [] OTHER      -> <<"failed">>

\* The message of the last snapshot scrape_task writes on its way out.
EndMessage(leave) ==
    CASE leave = "ret"   -> "Complete"
      [] leave = "inv"   -> "Login failed"
      [] leave = "inv_x" -> "Login failed"
      [] OTHER           -> "Failed"

\* scrape_task after the thread ended: the closing snapshot and the event of
\* the try body, or of the handler of the exception the thread raised.
ScrapeTaskEnd(j, sinks) ==
    /\ j \in DOMAIN task
    /\ task[j] = "thread"
    /\ j \in DOMAIN thread
    /\ thread[j].st \in {"ret", "inv", "exc"}
    /\ \E sink \in sinks :
          LET leave == LeaveOf(thread[j].st, sink)
          IN  /\ progress' = Put(progress, ProgressKey(j), Snapshot(100, EndMessage(leave), 100, 100))
              /\ task' = [task EXCEPT ![j] = leave]
              /\ events' = [events EXCEPT ![j] = @ \o ClosingEvents(thread[j].st, sink)]
    /\ thread' = Del(thread, j)
    /\ UNCHANGED <<clock, queue, jobdef, used, accepted, in_progress, results, retry,
                   worker, orphans, leaked, pagingVars, apiVars>>

\* What ARQ stores for scrape_task's way out: the returned dict, or the
\* exception as a failure.  extraction records how run_scraper had ended.
OutcomeOf(leave) ==
    CASE leave = "ret"   -> [returned |-> TRUE,  kind |-> "success", extraction |-> "ret"]
      [] leave = "inv"   -> [returned |-> TRUE,  kind |-> "invalid_credentials",
                             extraction |-> "inv"]
      [] leave = "ret_x" -> [returned |-> FALSE, kind |-> "exception", extraction |-> "ret"]
      [] leave = "inv_x" -> [returned |-> FALSE, kind |-> "exception", extraction |-> "inv"]
      [] OTHER           -> [returned |-> FALSE, kind |-> "exception", extraction |-> "exc"]

\* scrape_task returns or raises; run_job finishes the job.  No exception of
\* scrape_task makes ARQ run the job again: that takes arq.Retry or a
\* cancellation.
ScrapeTaskReturn(j) ==
    /\ j \in DOMAIN task
    /\ task[j] \in LeaveStates
    /\ FinishJob(j, OutcomeOf(task[j]) @@ [job_try |-> retry[j]])
    /\ task' = Del(task, j)
    /\ events' = Del(events, j)
    /\ UNCHANGED <<clock, used, accepted, progress, worker, thread, orphans, leaked, pagingVars, apiVars>>

\* job_timeout elapses while scrape_task awaits the thread: the task is
\* cancelled at the await (CancelledError passes both except clauses), run_job
\* stores the timeout as the job's failure; the thread cannot be cancelled.
JobTimeout(j) ==
    /\ j \in DOMAIN task
    /\ task[j] = "thread"
    /\ Alive(j)
    /\ FinishJob(j, [returned |-> FALSE, kind |-> "timeout",
                     extraction |-> "none", job_try |-> retry[j]])
    /\ task' = Del(task, j)
    /\ events' = Del(events, j)
    /\ UNCHANGED <<clock, used, accepted, progress, worker, thread, orphans, leaked, pagingVars, apiVars>>

\* The worker is stopped: every running task is cancelled and its job is left
\* in the queue to be run again; the loop is closed under the threads.
WorkerShutdown ==
    /\ worker = "up"
    /\ worker' = "down"
    /\ in_progress' = in_progress \ DOMAIN task
    /\ task' = Empty
    /\ events' = Empty
    /\ orphans' = LiveThreads
    /\ thread' = Empty
    /\ UNCHANGED <<clock, used, accepted, queue, jobdef, results, retry, progress, leaked,
                   pagingVars, apiVars>>

WorkerStart ==
    /\ worker = "down"
    /\ worker' = "up"
    /\ UNCHANGED <<storeVars, task, thread, orphans, leaked, events, pagingVars, apiVars>>

\* keep_result elapses: the result key expires.
ExpireResult(j) ==
    /\ j \in DOMAIN results
    /\ results' = Del(results, j)
    /\ UNCHANGED <<clock, used, accepted, queue, jobdef, in_progress, retry, progress,
                   workerVars, pagingVars, apiVars>>

(***************************************************************************)
(* THE UNIFIED JOB STATUS  (api/routes.py, _build_job_status)              *)
(***************************************************************************)
\* Job.status(): one transaction over result key, in-progress key and score.
StatusOf(j) ==
    IF j \in DOMAIN results THEN "complete"
    ELSE IF j \in in_progress THEN "in_progress"
    ELSE IF j \in DOMAIN queue THEN "queued"
    ELSE "not_found"

\* What job.info() gives for a finished job, as far as the status needs it:
\* type is "dict" for the dict scrape_task returned, "exception" for the
\* exception object run_job stored, "null" for a stored result of None and
\* "absent" when job.info() returns None.
ResultPayload(res) ==
    CASE res.kind = "success" ->
            [type |-> "dict", success |-> TRUE, error_type |-> ""]
      [] res.kind = "invalid_credentials" ->
            [type |-> "dict", success |-> FALSE, error_type |-> "invalid_credentials"]
      [] OTHER ->
            [type |-> "exception", success |-> FALSE, error_type |-> res.kind]

\* job.info() is None
NoInfo == [type |-> "absent", success |-> FALSE, error_type |-> ""]

\* info.result is None
NullInfo == [type |-> "null", success |-> FALSE, error_type |-> ""]

\* response["result"] = None
NullResult == [type |-> "null", success |-> FALSE, error_type |-> ""]

\* {"success": False, "error": "Job completed with no result"}
NoResultFailure == [type |-> "dict", success |-> FALSE, error_type |-> "no_result"]

\* next((i for i, j in enumerate(queued_jobs) if j.job_id == job_id), None),
\* as i + 1; 0 stands for None.  queued_jobs() lists the whole sorted set.
PositionIn(order, j) ==
    IF \E i \in 1..Len(order) : order[i] = j
    THEN CHOOSE i \in 1..Len(order) : order[i] = j
    ELSE 0

QueuePosition(j) == PositionIn(QueueOrder, j)

\* The snapshot a complete job with a result is answered with.
PinnedProgress == Snapshot(100, "Complete", 100, 100)

\* The same branches with a last branch that leaves the response as it is.
BuildStatusBareElse(j, status, position, prog, info) ==
    LET base == [job_id |-> j, status |-> status]
    IN  CASE status = "queued" ->
               LET r == base @@ [running |-> TRUE, message |-> "Job is queued"]
               IN  IF position # 0 THEN r @@ [queue_position |-> position] ELSE r
          [] status = "in_progress" ->
               IF prog # {}
               THEN LET p == CHOOSE x \in prog : TRUE
                    IN  base @@ [running |-> TRUE, message |-> p.message, progress |-> p]
               ELSE base @@ [running |-> TRUE, message |-> "Scraping in progress..."]
          [] status = "complete" ->
               IF info.type \in {"dict", "exception"}
               THEN base @@ [running |-> FALSE, result |-> info,
                             progress |-> PinnedProgress]
               ELSE IF info.type = "null"
               THEN base @@ [running |-> FALSE, result |-> NoResultFailure]
               ELSE base @@ [running |-> FALSE]
          [] status = "not_found" ->
               base @@ [running |-> FALSE, result |-> NullResult,
                        message |-> "Job not found or expired."]
          [] OTHER ->
               base

\* A status builder that answers a stored result of None like a missing one.
BuildStatusNoSynthesis(j, status, position, prog, info) ==
    LET base == [job_id |-> j, status |-> status]
    IN  CASE status = "queued" ->
               LET r == base @@ [running |-> TRUE, message |-> "Job is queued"]
               IN  IF position # 0 THEN r @@ [queue_position |-> position] ELSE r
          [] status = "in_progress" ->
               IF prog # {}
               THEN LET p == CHOOSE x \in prog : TRUE
                    IN  base @@ [running |-> TRUE, message |-> p.message, progress |-> p]
               ELSE base @@ [running |-> TRUE, message |-> "Scraping in progress..."]
          [] status = "complete" ->
               IF info.type \in {"dict", "exception"}
               THEN base @@ [running |-> FALSE, result |-> info,
                             progress |-> PinnedProgress]
               ELSE base @@ [running |-> FALSE]
          [] status = "not_found" ->
               base @@ [running |-> FALSE, result |-> NullResult,
                        message |-> "Job not found or expired."]
          [] OTHER ->
               base @@ [running |-> FALSE]

\* The branches of _build_job_status after the status lookup, on what the
\* sub-lookups gave: position is the queue position (0: none attached), prog
\* holds the decoded progress (empty: none, or the read failed), info is what
\* job.info() gave.
BuildStatus(j, status, position, prog, info) ==
    LET base == [job_id |-> j, status |-> status]
    IN  CASE status = "queued" ->
               LET r == base @@ [running |-> TRUE, message |-> "Job is queued"]
               IN  IF position # 0 THEN r @@ [queue_position |-> position] ELSE r
          [] status = "in_progress" ->
               IF prog # {}
               THEN LET p == CHOOSE x \in prog : TRUE
                    IN  base @@ [running |-> TRUE, message |-> p.message, progress |-> p]
               ELSE base @@ [running |-> TRUE, message |-> "Scraping in progress..."]
          [] status = "complete" ->
               IF info.type \in {"dict", "exception"}
               THEN base @@ [running |-> FALSE, result |-> info,
                             progress |-> PinnedProgress]
               ELSE IF info.type = "null"
               THEN base @@ [running |-> FALSE, result |-> NoResultFailure]
               ELSE base @@ [running |-> FALSE]
          [] status = "not_found" ->
               base @@ [running |-> FALSE, result |-> NullResult,
                        message |-> "Job not found or expired."]
          [] OTHER ->
               base @@ [running |-> FALSE]

\* The sub-lookups that may fail while a status is built: the queue
\* enumeration, the progress read or decode, the job.info() of a complete job.
NoFaults == [enum |-> FALSE, progress |-> FALSE, info |-> FALSE]

LookupFaults == [enum : BOOLEAN, progress : BOOLEAN, info : BOOLEAN]

\* Only the enumeration may fail.
EnumFaults == {f \in LookupFaults : ~f.progress /\ ~f.info}

\* The request ended with an exception instead of a status.
Raised == [error |-> "internal"]

\* _build_job_status after Job.status() answered `status`, against the store,
\* with the sub-lookups failing as `faults` says.  The enumeration and the
\* progress read are wrapped in try/except; job.info() is not.
BuildJobStatus(j, status, faults) ==
    IF status = "complete" /\ faults.info THEN Raised
    ELSE BuildStatus(j, status,
            IF faults.enum THEN 0 ELSE QueuePosition(j),
            IF ProgressKey(j) \in DOMAIN progress /\ ~faults.progress
            THEN {progress[ProgressKey(j)]} ELSE {},
            IF j \in DOMAIN results THEN ResultPayload(results[j]) ELSE NoInfo)

\* The jobs whose status is queued, in queue order.
WaitingOrder == SelectSeq(QueueOrder, LAMBDA j : StatusOf(j) = "queued")

\* GET /scrape/status/<id>: the status lookup ...
PollStatus(ids) ==
    /\ poll.pc = "idle"
    /\ \E j \in ids :
          poll' = [pc |-> "status_read", job |-> j, status |-> StatusOf(j),
                   waiting_index |-> 0, seen |-> {}]
    /\ resp' = Empty
    /\ UNCHANGED <<storeVars, workerVars, pagingVars, stream, answer, calcVars>>

\* The client that polled a job polls it once more; seen holds the statuses
\* its polls of the job were answered with.
PollStatusAgain(ids) ==
    /\ poll.pc = "idle"
    /\ \E j \in ids :
          /\ poll.seen = {} \/ j = poll.job
          /\ poll' = [poll EXCEPT !.pc = "status_read", !.job = j,
                                  !.status = StatusOf(j), !.waiting_index = 0]
    /\ resp' = Empty
    /\ UNCHANGED <<storeVars, workerVars, pagingVars, stream, answer, calcVars>>

\* ... and the lookups that follow it, after which the response is sent.
PollRespond ==
    /\ poll.pc = "status_read"
    /\ \E faults \in LookupFaults :
          resp' = BuildJobStatus(poll.job, poll.status, faults)
    /\ poll' = [poll EXCEPT !.pc = "idle",
                            !.waiting_index = PositionIn(WaitingOrder, poll.job),
                            !.seen = IF resp' = Raised THEN @ ELSE @ \cup {resp'.status}]
    /\ UNCHANGED <<storeVars, workerVars, pagingVars, stream, answer, calcVars>>

\* (queued_jobs or [])[:20]
LISTING_LIMIT == 20

\* GET /scrape/status: the number of jobs in the queue and, for the first of
\* them, id, function name and enqueue time.
QueueListing ==
    [queued_count |-> Len(QueueOrder),
     jobs |-> [i \in 1..Min(Len(QueueOrder), LISTING_LIMIT) |->
                  [job_id |-> QueueOrder[i], function |-> "scrape_task",
                   enqueue_time |-> queue[QueueOrder[i]]]]]

GetScrapeStatus ==
    /\ answer' = QueueListing
    /\ UNCHANGED <<storeVars, workerVars, pagingVars, poll, resp, stream, calcVars>>

(***************************************************************************)
(* THE STATUS STREAM  (api/routes.py, stream_job_status.event_stream)      *)
(*                                                                         *)
(* Time is counted in sleeps of the loop: one tick is the 0.5 s sleep.      *)
(***************************************************************************)
\* if now - last_heartbeat >= 15
HEARTBEAT_SECONDS == 15

\* await asyncio.sleep(0.5): sleeps per second
SLEEPS_PER_SECOND == 2

HeartbeatTicks == HEARTBEAT_SECONDS * SLEEPS_PER_SECOND

\* The ticks one round of the loop may take: the sleep alone, or the sleep
\* and a slow status lookup.
RoundTicks == {1, HeartbeatTicks \div 2}

\* result_obj.get("success") if isinstance(result_obj, dict) else None
ResultSuccess(payload) ==
    IF "result" \in DOMAIN payload /\ payload.result.type = "dict"
    THEN IF payload.result.success THEN "true" ELSE "false"
    ELSE "none"

\* The event name of a polled status.
EventName(payload) ==
    IF payload.status = "complete" THEN "complete"
    ELSE IF payload.status = "not_found" THEN "error"
    ELSE IF ResultSuccess(payload) = "false" THEN "error"
    ELSE IF "progress" \in DOMAIN payload THEN "progress"
    ELSE "status"

\* json.dumps(status_payload, ensure_ascii=False) succeeds on a payload of
\* JSON values; a result that is the exception object ARQ stored for a failed
\* job makes it raise TypeError.
Serializable(payload) ==
    ~("result" \in DOMAIN payload /\ payload.result.type = "exception")

\* A loop that never leaves after its events.
StreamBreaksNever(payload) == FALSE

\* if status_name in {"complete", "not_found"}: break
\* if result_success is False: break
StreamBreaks(payload) ==
    \/ payload.status \in {"complete", "not_found"}
    \/ ResultSuccess(payload) = "false"

\* A heartbeat test that takes the ticks for seconds.
HeartbeatDueInTicks(since) == since >= HEARTBEAT_SECONDS

\* if now - last_heartbeat >= 15
HeartbeatDue(since) == since >= HeartbeatTicks

\* A comparison that lets every polled status through.
ChangedAlways(payload, last) == TRUE

\* if serialized != last_payload: json.dumps writes the keys in the order
\* _build_job_status set them, so equal statuses have equal texts and
\* different statuses different texts.
Changed(payload, last) == payload # last

StreamOpen(ids) ==
    /\ stream.pc = "idle"
    /\ \E j \in ids :
          stream' = [NoStream EXCEPT !.pc = "check", !.job = j, !.connected = TRUE]
    /\ UNCHANGED <<storeVars, workerVars, pagingVars, poll, resp, answer, calcVars>>

\* The same request, with its rounds observed.
StreamOpenTimed(ids) ==
    /\ stream.pc = "idle"
    /\ \E j \in ids :
          stream' = [NoStream EXCEPT !.pc = "check", !.job = j, !.connected = TRUE,
                                     !.timed = TRUE]
    /\ UNCHANGED <<storeVars, workerVars, pagingVars, poll, resp, answer, calcVars>>

\* The client goes away.
StreamDisconnect ==
    /\ stream.pc \in {"check", "status_read"}
    /\ stream.connected
    /\ stream' = [stream EXCEPT !.connected = FALSE]
    /\ UNCHANGED <<storeVars, workerVars, pagingVars, poll, resp, answer, calcVars>>

\* A disconnection check that withdraws the job of a client that went away.
StreamCheckCancelsJob ==
    /\ stream.pc = "check"
    /\ stream' = IF stream.connected
                 THEN [stream EXCEPT !.pc = "status_read",
                                     !.status = StatusOf(stream.job)]
                 ELSE [stream EXCEPT !.pc = "closed"]
    /\ queue' = IF stream.connected THEN queue ELSE Del(queue, stream.job)
    /\ UNCHANGED <<clock, jobdef, used, accepted, in_progress, results, retry, progress,
                   workerVars, pagingVars, poll, resp, answer, calcVars>>

\* Top of the loop: the disconnection check, then the status lookup.
StreamCheck ==
    /\ stream.pc = "check"
    /\ stream' = IF stream.connected
                 THEN [stream EXCEPT !.pc = "status_read",
                                     !.status = StatusOf(stream.job)]
                 ELSE [stream EXCEPT !.pc = "closed"]
    /\ UNCHANGED <<storeVars, workerVars, pagingVars, poll, resp, answer, calcVars>>

\* The rest of the round: build the payload, name the event, serialize it,
\* emit it when it changed, emit a heartbeat when one is due, then leave or
\* sleep.  When the serialization raises, the generator ends there.  polled
\* is the status of the round.  On a stream opened as timed the round is
\* observed: told and beat say whether it emitted a data event and a
\* heartbeat, quiet counts the ticks since the last event of either kind.
StreamRound ==
    /\ stream.pc = "status_read"
    /\ \E faults \in EnumFaults, ticks \in RoundTicks :
          LET payload  == BuildJobStatus(stream.job, stream.status, faults)
              name     == EventName(payload)
              terminal == name \in {"complete", "error"}
              emit     == Changed(payload, stream.last_payload)
              due      == HeartbeatDue(stream.since_heartbeat)
              leave    == StreamBreaks(payload)
          IN  stream' =
                IF payload = Raised
                THEN [stream EXCEPT !.pc = "raised"]
                ELSE IF ~Serializable(payload)
                THEN [stream EXCEPT !.pc = "raised",
                                    !.terminal_seen = @ \/ terminal]
                ELSE [stream EXCEPT
                   !.pc = IF leave THEN "closed" ELSE "check",
                   !.last_payload = IF emit THEN payload ELSE @,
                   !.last_event = IF emit THEN name ELSE @,
                   !.terminal_events = IF emit /\ terminal THEN @ + 1 ELSE @,
                   !.data_after_terminal = @ \/ (emit /\ stream.terminal_seen),
                   !.terminal_seen = @ \/ terminal,
                   !.polled = payload,
                   !.told = stream.timed /\ emit,
                   !.beat = stream.timed /\ due,
                   !.quiet =
                       IF leave \/ ~stream.timed THEN 0
                       ELSE Min((IF emit \/ due THEN 0 ELSE @) + ticks, HeartbeatTicks),
                   !.since_heartbeat =
                       IF leave THEN 0
                       ELSE Min((IF due THEN 0 ELSE @) + ticks, HeartbeatTicks)]
    /\ UNCHANGED <<storeVars, workerVars, pagingVars, poll, resp, answer, calcVars>>

(***************************************************************************)
(* Spec: one job, every milestone of its thread observable, worker         *)
(* restarts.                                                               *)
(***************************************************************************)
AllPoints == 1..(Len(Script(2)))

Init ==
    /\ pg = PagingIdle
    /\ StoreInit
    /\ WorkerInit
    /\ ApiInit

JobStep(j, counts, points, faults) ==
    \/ ScrapeTaskBegin(j, counts)
    \/ RunScraperAdvance(j, points)
    \/ RunScraperReturn(j)
    \/ RunScraperInvalid(j)
    \/ RunScraperRaise(j, faults, BuildFaults)
    \/ ScrapeTaskEnd(j, Sinks)
    \/ ScrapeTaskReturn(j)
    \/ JobTimeout(j)

Next ==
    \/ TriggerScrape(OneJob, {0, 1}, EmailInputs, PasswordInputs)
    \/ TriggerScrapeConflict(OneJob)
    \/ TriggerScrapeInvalid(EmailInputs, PasswordInputs)
    \/ StartJob
    \/ StartJobExhausted
    \/ \E j \in OneJob : JobStep(j, StudentCounts, AllPoints, {0} \cup AllPoints)
    \/ \E j \in OneJob : ExpireResult(j)
    \/ OrphanEnds
    \/ WorkerShutdown
    \/ WorkerStart

Spec == Init /\ [][Next]_vars

(***************************************************************************)
(* SpecPool: more jobs than worker slots; a thread is observed only at     *)
(* the login wait and at its end.                                          *)
(***************************************************************************)
PoolPoints == {Len(Script(1))}

\* The draw gives the lowest id not drawn yet, or an id that is taken.
LowestFree(ids) == {id \in ids \ used : \A o \in ids \ used : id <= o}

NextPool ==
    \/ TriggerScrape(LowestFree(PoolIds), {1}, EmailInputs, {"pw"})
    \/ TriggerScrapeConflict(PoolIds)
    \/ TriggerScrapeInvalid(EmailInputs, {"pw"})
    \/ StartJob
    \/ \E j \in PoolIds :
          \/ ScrapeTaskBegin(j, {1})
          \/ RunScraperAdvance(j, PoolPoints)
          \/ RunScraperReturn(j)
          \/ RunScraperRaise(j, {0}, {"no_session"})
          \/ ScrapeTaskEnd(j, {"ok"})
          \/ ScrapeTaskReturn(j)
          \/ JobTimeout(j)

SpecPool == Init /\ [][NextPool]_vars

(***************************************************************************)
(* SpecStatus: two jobs  , status polls racing with the worker.            *)
(***************************************************************************)
StatusJobs == 2

StatusIds == 1..StatusJobs

\* The ids a client may ask about: every id of the store and an unknown one.
AskIds == StatusIds \cup {0}

NextStatus ==
    \/ TriggerScrape(LowestFree(StatusIds), {1}, EmailInputs, PasswordInputs)
    \/ TriggerScrapeConflict(StatusIds)
    \/ TriggerScrapeInvalid(EmailInputs, PasswordInputs)
    \/ StartJob
    \/ \E j \in StatusIds :
          \/ ScrapeTaskBegin(j, {1})
          \/ RunScraperAdvance(j, PoolPoints)
          \/ RunScraperReturn(j)
          \/ RunScraperRaise(j, {0}, {"no_session"})
          \/ ScrapeTaskEnd(j, {"ok"})
          \/ ScrapeTaskReturn(j)
          \/ JobTimeout(j)
          \/ ExpireResult(j)
    \/ PollStatus(AskIds)
    \/ PollRespond

SpecStatus == Init /\ [][NextStatus]_vars

(***************************************************************************)
(* SpecStream: one job and one stream on it (or on an unknown id).         *)
(***************************************************************************)
StreamPoints == {LoginPos, Len(Script(1))}

NextStream ==
    \/ TriggerScrape(OneJob, {1}, EmailInputs, {"pw"})
    \/ StartJob
    \/ StartJobExhausted
    \/ \E j \in OneJob :
          \/ ScrapeTaskBegin(j, {1})
          \/ RunScraperAdvance(j, StreamPoints)
          \/ RunScraperReturn(j)
          \/ RunScraperInvalid(j)
          \/ RunScraperRaise(j, {0}, {"no_session"})
          \/ ScrapeTaskEnd(j, {"ok"})
          \/ ScrapeTaskReturn(j)
          \/ JobTimeout(j)
          \/ ExpireResult(j)
    \/ OrphanEnds
    \/ WorkerShutdown
    \/ WorkerStart
    \/ StreamOpen(OneJob \cup {0})
    \/ StreamDisconnect
    \/ StreamCheck
    \/ StreamRound

SpecStream == Init /\ [][NextStream]_vars

(***************************************************************************)
(* SpecApi: one job, with a status poll and a stream reading it.           *)
(***************************************************************************)
NextApi ==
    \/ TriggerScrape(OneJob, {1}, EmailInputs, {"pw"})
    \/ StartJob
    \/ \E j \in OneJob :
          \/ ScrapeTaskBegin(j, {1})
          \/ RunScraperAdvance(j, PoolPoints)
          \/ RunScraperReturn(j)
          \/ RunScraperRaise(j, {0}, {"no_session"})
          \/ ScrapeTaskEnd(j, {"ok"})
          \/ ScrapeTaskReturn(j)
          \/ JobTimeout(j)
          \/ ExpireResult(j)
    \/ PollStatus(OneJob \cup {0})
    \/ PollRespond
    \/ StreamOpen(OneJob \cup {0})
    \/ StreamDisconnect
    \/ StreamCheck
    \/ StreamRound

SpecApi == Init /\ [][NextApi]_vars

(***************************************************************************)
(* PROGRESS DECODING  (api/routes.py, _decode_progress)                    *)
(*                                                                         *)
(* A stored value is a byte string.  It is modelled by its characters     *)
(* when it is plain text, and by its document when it is a JSON object or *)
(* another JSON document that holds no digit-only text.                   *)
(***************************************************************************)
Digits == <<"0", "1", "2", "3", "4", "5", "6", "7", "8", "9">>

IsDigit(c) == \E i \in 1..Len(Digits) : Digits[i] = c

DigitValue(c) == (CHOOSE i \in 1..Len(Digits) : Digits[i] = c) - 1

\* str(n) of a natural number.
RECURSIVE StrOfNat(_)
StrOfNat(n) ==
    IF n < Len(Digits) THEN <<Digits[n + 1]>>
    ELSE StrOfNat(n \div Len(Digits)) \o <<Digits[(n % Len(Digits)) + 1]>>

\* int(text) succeeds on a text of digits (signs, blanks and underscores are
\* not among the characters drawn).
IsIntText(t) == Len(t) > 0 /\ \A i \in 1..Len(t) : IsDigit(t[i])

RECURSIVE IntOfText(_)
IntOfText(t) ==
    IF Len(t) = 0 THEN 0
    ELSE Len(Digits) * IntOfText(SubSeq(t, 1, Len(t) - 1)) + DigitValue(t[Len(t)])

\* A text that json.loads reads as a number: digits with no leading zero.
IsJsonNumber(t) == IsIntText(t) /\ (Len(t) = 1 \/ t[1] # "0")

\* text.split(sep) with at most one cut.
SplitOnce(t, sep) ==
    IF \A i \in 1..Len(t) : t[i] # sep THEN <<t>>
    ELSE LET k == CHOOSE i \in 1..Len(t) :
                     t[i] = sep /\ \A h \in 1..(i - 1) : t[h] # sep
         IN  <<SubSeq(t, 1, k - 1), SubSeq(t, k + 1, Len(t))>>

\* text.split(sep)
RECURSIVE SplitOn(_, _)
SplitOn(t, sep) ==
    IF \A i \in 1..Len(t) : t[i] # sep THEN <<t>>
    ELSE LET k == CHOOSE i \in 1..Len(t) :
                     t[i] = sep /\ \A h \in 1..(i - 1) : t[h] # sep
         IN  <<SubSeq(t, 1, k - 1)>> \o SplitOn(SubSeq(t, k + 1, Len(t)), sep)

\* A member of a JSON object, or its absence.
Missing == [t |-> "missing", n |-> 0, s |-> <<>>]

JsonNull == [t |-> "null", n |-> 0, s |-> <<>>]

JsonInt(n) == [t |-> "int", n |-> n, s |-> <<>>]

JsonStr(s) == [t |-> "str", n |-> 0, s |-> s]

\* The forms of a stored value.
NoKey == [form |-> "missing"]

Text(t) == [form |-> "text", text |-> t]

JsonObject(fields) == [form |-> "object", fields |-> fields]

JsonOther(kind) == [form |-> "json", kind |-> kind]

\* json.loads(decoded): an object, another document, or JSONDecodeError.
JsonLoads(stored) ==
    CASE stored.form = "object" -> "object"
      [] stored.form = "json" -> stored.kind
      [] stored.form = "text" ->
            IF IsJsonNumber(stored.text) THEN "number" ELSE "JSONDecodeError"

\* int(payload.get(key, default)): ValueError or TypeError when it fails.
PyInt(member, default) ==
    CASE member.t = "missing" -> [ok |-> TRUE, n |-> default]
      [] member.t = "int" -> [ok |-> TRUE, n |-> member.n]
      [] member.t = "str" ->
            IF IsIntText(member.s) THEN [ok |-> TRUE, n |-> IntOfText(member.s)]
            ELSE [ok |-> FALSE, n |-> 0]
      [] member.t = "null" -> [ok |-> FALSE, n |-> 0]

\* str(payload.get(key, ""))
PyStr(member) ==
    CASE member.t = "missing" -> <<>>
      [] member.t = "str" -> member.s
      [] member.t = "int" -> StrOfNat(member.n)
      [] member.t = "null" -> <<"N", "o", "n", "e">>

\* payload.get(key): None when the key is missing.
PyGet(member) == IF member.t = "missing" THEN JsonNull ELSE member

Absent == [outcome |-> "absent"]

Raises(error) == [outcome |-> "raises", error |-> error]

Decoded(via, percent, message, current_step, total_steps, updated_at) ==
    [outcome |-> "value", via |-> via, percent |-> percent, message |-> message,
     current_step |-> current_step, total_steps |-> total_steps,
     updated_at |-> updated_at]

\* The second try block: four fields cut at "|", three of them integers.
\* Anything raised here gives None.
LegacyDecode(text) ==
    LET parts == SplitOn(text, "|")
    IN  IF /\ Len(parts) = 4
           /\ IsIntText(parts[1]) /\ IsIntText(parts[3]) /\ IsIntText(parts[4])
        THEN Decoded("legacy", IntOfText(parts[1]), parts[2],
                     IntOfText(parts[3]), IntOfText(parts[4]), JsonNull)
        ELSE Absent

\* The first try block on a JSON object.  When a conversion fails the legacy
\* form is tried on the same bytes; they start with "{", so the first field
\* is no integer and the answer is None.
StructuredDecode(fields) ==
    LET percent == PyInt(fields.percent, 0)
        current == PyInt(fields.current_step, 0)
        total == PyInt(fields.total_steps, 100)
    IN  IF percent.ok /\ current.ok /\ total.ok
        THEN Decoded("structured", percent.n, PyStr(fields.message),
                     current.n, total.n, PyGet(fields.updated_at))
        ELSE Absent

\* _decode_progress.  A JSON document that is no object has no .get: the
\* AttributeError is none of ValueError, TypeError, JSONDecodeError.
DecodeProgress(stored) ==
    IF stored.form = "missing" THEN Absent
    ELSE IF stored.form = "text" /\ stored.text = <<>> THEN Absent
    ELSE LET loaded == JsonLoads(stored)
         IN  CASE loaded = "object" -> StructuredDecode(stored.fields)
               [] loaded = "JSONDecodeError" -> LegacyDecode(stored.text)
               [] OTHER -> Raises("AttributeError")

\* json.dumps(payload) of write_progress.
DumpSnapshot(percent, message, current_step, total_steps, updated_at) ==
    JsonObject([percent |-> JsonInt(percent), message |-> JsonStr(message),
                current_step |-> JsonInt(current_step),
                total_steps |-> JsonInt(total_steps),
                updated_at |-> JsonStr(updated_at)])

\* "percent|message|current|total"
LegacyText(percent, message, current_step, total_steps) ==
    Text(StrOfNat(percent) \o <<"|">> \o message \o <<"|">>
         \o StrOfNat(current_step) \o <<"|">> \o StrOfNat(total_steps))

(***************************************************************************)
(* SpecDecode: one stored progress value is read.                          *)
(***************************************************************************)
\* The longest plain text drawn.
MaxText == 7

TextChars == {"|", "4", "0", "m"}

Texts == UNION {[1..n -> TextChars] : n \in 0..MaxText}

StepNumbers == {0, 4, 10, 42, 100}

Messages == UNION {[1..n -> {"m", " "}] : n \in 0..2}

Stamp == <<"t">>

PercentMembers == {Missing, JsonNull, JsonInt(42), JsonStr(<<"4", "0">>), JsonStr(<<"m">>)}

MessageMembers == {Missing, JsonNull, JsonStr(<<"m", "|", "m">>)}

StepMembers == {Missing, JsonInt(4), JsonStr(<<"m">>)}

TotalMembers == {Missing, JsonInt(10)}

StampMembers == {Missing, JsonStr(Stamp)}

Objects ==
    {JsonObject([percent |-> p, message |-> m, current_step |-> c,
                 total_steps |-> t, updated_at |-> u]) :
        p \in PercentMembers, m \in MessageMembers, c \in StepMembers,
        t \in TotalMembers, u \in StampMembers}

OtherDocuments == {JsonOther(k) : k \in {"list", "null", "string", "true"}}

StoredInputs == {NoKey} \cup {Text(t) : t \in Texts} \cup Objects \cup OtherDocuments

InitDecode ==
    /\ pg = PagingIdle
    /\ StoreInit
    /\ WorkerInit
    /\ poll = NoPoll
    /\ resp = Empty
    /\ stream = NoStream
    /\ answer = Empty
    /\ login = NoLogin
    /\ kept = NoKept
    /\ fast = NoFast
    /\ agg = NoAggregate
    /\ wr = NoWrite
    /\ files = NoFiles
    /\ web = NoRequest
    /\ \/ \E p \in StepNumbers, m \in Messages, c \in StepNumbers, t \in StepNumbers :
             dec = [pc |-> "stored",
                    origin |-> [kind |-> "legacy", percent |-> p, message |-> m,
                                current_step |-> c, total_steps |-> t],
                    stored |-> LegacyText(p, m, c, t), out |-> Absent]
       \/ \E p \in StepNumbers, m \in Messages, c \in StepNumbers, t \in StepNumbers :
             dec = [pc |-> "stored",
                    origin |-> [kind |-> "structured", percent |-> p, message |-> m,
                                current_step |-> c, total_steps |-> t],
                    stored |-> DumpSnapshot(p, m, c, t, Stamp), out |-> Absent]
       \/ \E v \in StoredInputs :
             dec = [pc |-> "stored", origin |-> [kind |-> "any"],
                    stored |-> v, out |-> Absent]

\* The value is read.
Decode ==
    /\ dec.pc = "stored"
    /\ dec' = [dec EXCEPT !.pc = "read", !.out = DecodeProgress(dec.stored)]
    /\ UNCHANGED <<storeVars, workerVars, pagingVars, poll, resp, stream, answer, login, kept, fast,
                   agg, wr, files, web>>

NextDecode == Decode

SpecDecode == InitDecode /\ [][NextDecode]_vars

(***************************************************************************)
(* SpecWrite: one progress report is stored.                               *)
(***************************************************************************)
\* The largest step number drawn besides the scraper's own reports.
MaxReport == 12

\* The (current_step, total_steps) pairs reported: any small pair, and the
\* scraper's pairs out of 100.
Reports ==
    {<<c, t>> : c \in 0..MaxReport, t \in 0..MaxReport}
        \cup {<<c, 100>> : c \in 0..100}

\* The percents scrape_task writes itself.
DirectPercents == {1, 100}

WriteTimes == {1, 2}

InitWrite ==
    /\ pg = PagingIdle
    /\ StoreInit
    /\ WorkerInit
    /\ poll = NoPoll
    /\ resp = Empty
    /\ stream = NoStream
    /\ answer = Empty
    /\ login = NoLogin
    /\ kept = NoKept
    /\ fast = NoFast
    /\ agg = NoAggregate
    /\ dec = NoDecode
    /\ files = NoFiles
    /\ web = NoRequest
    /\ \/ \E r \in Reports, now \in WriteTimes :
             wr = [pc |-> "reported", via |-> "on_step_progress",
                   current_step |-> r[1], total_steps |-> r[2], now |-> now,
                   stored |-> Empty]
       \/ \E p \in DirectPercents, now \in WriteTimes :
             wr = [pc |-> "reported", via |-> "scrape_task",
                   current_step |-> p, total_steps |-> 100, now |-> now,
                   stored |-> Empty]

\* The write lands in the store.
WriteProgress ==
    /\ wr.pc = "reported"
    /\ wr' = [wr EXCEPT
                !.pc = "stored",
                !.stored =
                    StoredProgress(
                        IF wr.via = "on_step_progress"
                        THEN PercentOf(wr.current_step, wr.total_steps)
                        ELSE wr.current_step,
                        "m", wr.current_step, wr.total_steps, wr.now)]
    /\ UNCHANGED <<storeVars, workerVars, pagingVars, poll, resp, stream, answer, login, kept, fast,
                   agg, dec, files, web>>

NextWrite == WriteProgress

SpecWrite == InitWrite /\ [][NextWrite]_vars

(***************************************************************************)
(* SpecSecrets: one job submitted with one of several passwords, and every *)
(* operation that answers about it.                                        *)
(***************************************************************************)
SecretPasswords == {"hunter2", "s3cret"}

SecretEmails == {"a@x.io"}

NextSecrets ==
    \/ TriggerScrapeAnswered(OneJob, {1}, SecretEmails, SecretPasswords)
    \/ StartJob
    \/ \E j \in OneJob :
          \/ ScrapeTaskBegin(j, {1})
          \/ RunScraperAdvance(j, StreamPoints)
          \/ RunScraperReturn(j)
          \/ RunScraperInvalid(j)
          \/ RunScraperRaise(j, {0}, {"no_session"})
          \/ ScrapeTaskEnd(j, {"ok"})
          \/ ScrapeTaskReturn(j)
    \/ PollStatus(OneJob)
    \/ PollRespond
    \/ GetScrapeStatus
    \/ StreamOpen(OneJob)
    \/ StreamCheck
    \/ StreamRound

SpecSecrets == Init /\ [][NextSecrets]_vars

(***************************************************************************)
(* THE EXPORTED DOCUMENT  (services/scraper.py, run_scraper)               *)
(*                                                                         *)
(* A group name is the text the page shows, as characters.                 *)
(***************************************************************************)
\* \w under re.ASCII, of the characters drawn; "-" is kept as well.
WordChars == {"a", "_"}

Blanks == {" "}

Kept(c) == c \in WordChars \/ c = "-"

\* text.strip(): blanks at both ends go.
RECURSIVE StripChars(_, _)
StripChars(t, cs) ==
    IF Len(t) > 0 /\ t[1] \in cs THEN StripChars(Tail(t), cs)
    ELSE IF Len(t) > 0 /\ t[Len(t)] \in cs THEN StripChars(SubSeq(t, 1, Len(t) - 1), cs)
    ELSE t

\* re.sub(r"[^\w\-]+", "_", t): every run of other characters becomes one "_".
RECURSIVE SubRuns(_)
SubRuns(t) ==
    IF Len(t) = 0 THEN <<>>
    ELSE IF Kept(t[1]) THEN <<t[1]>> \o SubRuns(Tail(t))
    ELSE IF Len(t) > 1 /\ ~Kept(t[2]) THEN SubRuns(Tail(t))
    ELSE <<"_">> \o SubRuns(Tail(t))

UnknownGroup == <<"unknown_group">>

\* _sanitize_filename_part
SanitizeFilenamePart(text) ==
    LET cleaned == StripChars(SubRuns(StripChars(text, Blanks)), {"_"})
    IN  IF cleaned = <<>> THEN UnknownGroup ELSE cleaned

\* f"{group_name}_{timestamp}.json" with the timestamp cut to the second.
ExportName(group, second) == [group |-> SanitizeFilenamePart(group), stamp |-> second]

\* The save: write_text replaces a file of that name.
SaveExport(j, group) ==
    /\ j \notin DOMAIN files.written
    /\ LET name == ExportName(group, files.second)
       IN  files' = [files EXCEPT !.dir = Put(files.dir, name, j),
                                  !.written = Put(files.written, j, name)]
    /\ UNCHANGED <<storeVars, workerVars, pagingVars, poll, resp, stream, answer, login, kept, fast,
                   agg, dec, wr, web>>

(***************************************************************************)
(* SpecExport: the scrapes of several jobs reach the save.                 *)
(***************************************************************************)
\* The jobs that save, and the last second of the clock.
ExportJobs == 2

MaxSecond == 2

MaxGroup == 3

GroupChars == {"a", "-", " ", "/"}

GroupNames == UNION {[1..n -> GroupChars] : n \in 0..MaxGroup}

\* A second passes.
ExportTick ==
    /\ files.second < MaxSecond
    /\ files' = [files EXCEPT !.second = files.second + 1]
    /\ UNCHANGED <<storeVars, workerVars, pagingVars, poll, resp, stream, answer, login, kept, fast,
                   agg, dec, wr, web>>

NextExport ==
    \/ ExportTick
    \/ \E j \in 1..ExportJobs, group \in GroupNames : SaveExport(j, group)

SpecExport == Init /\ [][NextExport]_vars

(***************************************************************************)
(* THE DATA ENDPOINTS  (api/routes.py, get_students and get_file_by_name;  *)
(* utils/file_handler.py)                                                  *)
(*                                                                         *)
(* A file of the output directory is what reading it gives and its         *)
(* modification time.                                                      *)
(***************************************************************************)
\* "data": a non-empty document; "empty": a document that is falsy ({} or
\* null); "invalid": no JSON; "unreadable": open() fails.
FileKinds == {"data", "empty", "invalid", "unreadable"}

\* _read_json_file: the document, or ValueError / IOError.
ReadJsonFile(file) ==
    CASE file.kind = "data" -> [raised |-> "none", data |-> "document"]
      [] file.kind = "empty" -> [raised |-> "none", data |-> "nothing"]
      [] file.kind = "invalid" -> [raised |-> "ValueError", data |-> "nothing"]
      [] file.kind = "unreadable" -> [raised |-> "IOError", data |-> "nothing"]

\* get_latest_data: None without files, else the read of a newest file.
GetLatestData(dir) ==
    IF DOMAIN dir = {} THEN {[raised |-> "none", data |-> "nothing"]}
    ELSE {ReadJsonFile(dir[f]) :
            f \in {n \in DOMAIN dir : \A o \in DOMAIN dir : dir[o].mtime <= dir[n].mtime}}

\* get_file_by_name: FileNotFoundError without the file, else its read.
GetFileByName(dir, name) ==
    IF name \notin DOMAIN dir THEN [raised |-> "FileNotFoundError", data |-> "nothing"]
    ELSE ReadJsonFile(dir[name])

\* The body of both handlers after the read: the HTTPException(404) raised
\* for missing data is raised inside the try block, and HTTPException is an
\* Exception, so the last handler turns it into a 500.
AnswerFor(read) ==
    IF read.raised = "FileNotFoundError" THEN 404
    ELSE IF read.raised # "none" THEN 500
    ELSE IF read.data = "nothing" THEN 500
    ELSE 200

(***************************************************************************)
(* SpecFiles: one request to a data endpoint over some output directory.   *)
(***************************************************************************)
StoredNames == {"f1", "f2"}

AskedNames == StoredNames \cup {"f3"}

MaxMtime == 2

StoredFiles == [kind : FileKinds, mtime : 1..MaxMtime]

Directories == UNION {[names -> StoredFiles] : names \in SUBSET StoredNames}

InitFiles ==
    /\ pg = PagingIdle
    /\ StoreInit
    /\ WorkerInit
    /\ poll = NoPoll
    /\ resp = Empty
    /\ stream = NoStream
    /\ answer = Empty
    /\ login = NoLogin
    /\ kept = NoKept
    /\ fast = NoFast
    /\ agg = NoAggregate
    /\ dec = NoDecode
    /\ wr = NoWrite
    /\ files = NoFiles
    /\ \E dir \in Directories :
          \/ web = [pc |-> "asked", op |-> "students", name |-> "", dir |-> dir,
                    code |-> 0]
          \/ \E name \in AskedNames :
                web = [pc |-> "asked", op |-> "file", name |-> name, dir |-> dir,
                       code |-> 0]

\* GET /students
GetStudents ==
    /\ web.pc = "asked"
    /\ web.op = "students"
    /\ \E read \in GetLatestData(web.dir) :
          web' = [web EXCEPT !.pc = "answered", !.code = AnswerFor(read)]
    /\ UNCHANGED <<storeVars, workerVars, pagingVars, poll, resp, stream, answer, login, kept, fast,
                   agg, dec, wr, files>>

\* GET /files/<name>
GetFile ==
    /\ web.pc = "asked"
    /\ web.op = "file"
    /\ web' = [web EXCEPT !.pc = "answered",
                          !.code = AnswerFor(GetFileByName(web.dir, web.name))]
    /\ UNCHANGED <<storeVars, workerVars, pagingVars, poll, resp, stream, answer, login, kept, fast,
                   agg, dec, wr, files>>

NextFiles == GetStudents \/ GetFile

SpecFiles == InitFiles /\ [][NextFiles]_vars

(***************************************************************************)
(* SpecFifo: several jobs, accepted at the same or at later milliseconds   *)
(* under any ids, and the worker starting them.                            *)
(***************************************************************************)
FifoJobs == 3

FifoIds == 1..FifoJobs

\* The milliseconds that pass between two accepted requests.
FifoGaps == {0, 1}

NextFifo ==
    \/ TriggerScrape(FifoIds, FifoGaps, {"a@x.io"}, {"pw"})
    \/ StartJob
    \/ \E j \in FifoIds :
          \/ ScrapeTaskBegin(j, {1})
          \/ RunScraperAdvance(j, PoolPoints)
          \/ RunScraperReturn(j)
          \/ ScrapeTaskEnd(j, {"ok"})
          \/ ScrapeTaskReturn(j)

SpecFifo == Init /\ [][NextFifo]_vars

(***************************************************************************)
(* SpecLive: one job with every outcome, and one stream whose loop is      *)
(* scheduled fairly: the event loop resumes a generator whose await is     *)
(* done, so a check or a round that stays possible is taken.               *)
(***************************************************************************)
NextLive ==
    \/ TriggerScrape(OneJob, {1}, {"a@x.io"}, {"pw"})
    \/ StartJob
    \/ \E j \in OneJob :
          \/ ScrapeTaskBegin(j, {1})
          \/ RunScraperAdvance(j, StreamPoints)
          \/ RunScraperReturn(j)
          \/ RunScraperInvalid(j)
          \/ RunScraperRaise(j, {0}, {"no_session"})
          \/ ScrapeTaskEnd(j, {"ok"})
          \/ ScrapeTaskReturn(j)
          \/ JobTimeout(j)
          \/ ExpireResult(j)
    \/ StreamOpen(OneJob \cup {0})
    \/ StreamDisconnect
    \/ StreamCheck
    \/ StreamRound

SpecLive ==
    /\ Init
    /\ [][NextLive]_vars
    /\ WF_vars(StreamCheck)
    /\ WF_vars(StreamRound)

(***************************************************************************)
(* LOGIN  (services/scraper.py, run_scraper up to the outcome of its login) *)
(*                                                                         *)
(* Time is counted in seconds since the login wait began.                  *)
(***************************************************************************)
\* os.getenv("DICODING_EMAIL", "") and os.getenv("DICODING_PASSWORD", ""):
\* unset, or set on the server.
EnvEmails == {"", "env@x.io"}

EnvPasswords == {"", "envpw"}

\* email or os.getenv("DICODING_EMAIL", "")
OrDefault(value, default) == IF value # "" THEN value ELSE default

\* WebDriverWait(driver, 30)
LOGIN_WAIT_SECONDS == 30

\* The seconds one call of the condition and the sleep after it may take.
PollSeconds == {1, LOGIN_WAIT_SECONDS \div 2}

\* What one call of _check_login_result meets:
\*   "redirected"    current_url holds no "/login"
\*   "indicator"     on the login view, _check_login_error finds an error
\*   "waiting"       on the login view, no error found
\*   "session_lost"  a driver call raises InvalidSessionIdException or another
\*                   WebDriverException: the remote session is gone
\*   "other_fault"   a driver call raises an exception that is no
\*                   WebDriverException (the grid cannot be reached)
LoginViews == {"redirected", "indicator", "waiting", "session_lost", "other_fault"}

\* _check_login_result(d): its value, or the exception it raises.
CheckLoginResult(view) ==
    CASE view = "redirected"   -> [value |-> TRUE,  raised |-> "none"]
      [] view = "indicator"    -> [value |-> FALSE, raised |-> "InvalidCredentialsError"]
      [] view = "waiting"      -> [value |-> FALSE, raised |-> "none"]
      [] view = "session_lost" -> [value |-> FALSE, raised |-> "WebDriverException"]
      [] view = "other_fault"  -> [value |-> FALSE, raised |-> "Exception"]

\* The except clauses around the wait: InvalidCredentialsError is raised
\* again, TimeoutException, InvalidSessionIdException and WebDriverException
\* become InvalidCredentialsError, anything else passes.
LoginWaitRaises(raised) ==
    IF raised \in {"InvalidCredentialsError", "TimeoutException",
                   "InvalidSessionIdException", "WebDriverException"}
    THEN "InvalidCredentialsError"
    ELSE raised

\* run_scraper(email=email, password=password) as scrape_task calls it with
\* the arguments of an accepted request: the credentials are chosen, and
\* without credentials ValueError is raised.
RunScraperCredentials ==
    /\ login.pc = "idle"
    /\ \E email \in EmailInputs, password \in PasswordInputs,
          env_email \in EnvEmails, env_password \in EnvPasswords :
          /\ ValidScrapeRequest(email, password)
          /\ LET scraper_email    == OrDefault(email, env_email)
                 scraper_password == OrDefault(password, env_password)
                 missing == scraper_email = "" \/ scraper_password = ""
             IN  login' = [pc |-> IF missing THEN "done" ELSE "chosen",
                           email |-> email, password |-> password,
                           scraper_email |-> scraper_email,
                           scraper_password |-> scraper_password,
                           typed_email |-> "", typed_password |-> "",
                           elapsed |-> 0, cause |-> "none",
                           out |-> IF missing THEN "ValueError" ELSE "none"]
    /\ UNCHANGED <<storeVars, workerVars, pagingVars, poll, resp, stream, answer,
                   agg, dec, wr, files, web, kept, fast>>

\* _login_with_email_password(driver, wait, scraper_email, scraper_password)
\* types the credentials and submits the form.
LoginType ==
    /\ login.pc = "chosen"
    /\ login' = [login EXCEPT !.pc = "wait",
                              !.typed_email = login.scraper_email,
                              !.typed_password = login.scraper_password]
    /\ UNCHANGED <<storeVars, workerVars, pagingVars, poll, resp, stream, answer,
                   agg, dec, wr, files, web, kept, fast>>

\* One round of WebDriverWait(driver, 30).until(...): the condition is
\* called; a true value ends the wait, an exception leaves it, otherwise the
\* wait sleeps and raises TimeoutException once the 30 s are over.
LoginWaitPoll ==
    /\ login.pc = "wait"
    /\ \E view \in LoginViews, secs \in PollSeconds :
          LET res     == CheckLoginResult(view)
              elapsed == Min(login.elapsed + secs, LOGIN_WAIT_SECONDS + 1)
              late    == elapsed > LOGIN_WAIT_SECONDS
          IN  login' =
                IF res.raised # "none"
                THEN [login EXCEPT !.pc = "done", !.cause = view,
                                   !.out = LoginWaitRaises(res.raised)]
                ELSE IF res.value
                THEN [login EXCEPT !.pc = "done", !.cause = view, !.out = "ok"]
                ELSE IF late
                THEN [login EXCEPT !.pc = "done", !.cause = "deadline",
                                   !.elapsed = elapsed,
                                   !.out = LoginWaitRaises("TimeoutException")]
                ELSE [login EXCEPT !.elapsed = elapsed]
    /\ UNCHANGED <<storeVars, workerVars, pagingVars, poll, resp, stream, answer,
                   agg, dec, wr, files, web, kept, fast>>

(***************************************************************************)
(* SpecLogin: one run_scraper call for one accepted request.               *)
(***************************************************************************)
NextLogin ==
    \/ RunScraperCredentials
    \/ LoginType
    \/ LoginWaitPoll

SpecLogin == Init /\ [][NextLogin]_vars

(***************************************************************************)
(* RETENTION  (worker.py: write_progress, WorkerSettings)                  *)
(*                                                                         *)
(* One execution and the two keys it leaves, on a clock of seconds.  A key *)
(* set with an expiry exists until that many seconds have passed since it  *)
(* was set.                                                                *)
(***************************************************************************)
\* The clock moves in steps of five minutes, up to the end of both keys.
ClockStep == JOB_TIMEOUT \div 2

ClockEnd == PROGRESS_TTL + 2 * JOB_TIMEOUT

\* redis.set(progress_key, ..., ex=7200) at time now: the key's end.
ProgressUntil(now) == now + StoredProgress(100, "Complete", 100, 100, now).ex

\* finish_job at time now: the result key's end.
ResultUntil(now) == now + KEEP_RESULT

HasProgress == kept.pc # "idle" /\ kept.now < kept.progress_until

HasResult == kept.pc = "finished" /\ kept.now < kept.result_until

\* Job.status() of the job once it finished.
KeptStatus == IF HasResult THEN "complete" ELSE "not_found"

\* scrape_task starts and writes its first snapshot.
KeptBegin ==
    /\ kept.pc = "idle"
    /\ kept' = [pc |-> "running", now |-> 0, began |-> 0, closing |-> FALSE,
                progress_until |-> ProgressUntil(0), result_until |-> 0]
    /\ UNCHANGED <<storeVars, workerVars, pagingVars, poll, resp, stream, answer,
                   agg, dec, wr, files, web, login, fast>>

\* The thread reports a milestone; the thread of an execution that timed
\* out goes on reporting.
KeptWrite ==
    /\ \/ kept.pc = "running"
       \/ kept.pc = "finished" /\ ~kept.closing
    /\ kept' = [kept EXCEPT !.progress_until = ProgressUntil(kept.now)]
    /\ UNCHANGED <<storeVars, workerVars, pagingVars, poll, resp, stream, answer,
                   agg, dec, wr, files, web, login, fast>>

\* Time passes; an execution does not run past job_timeout.
KeptTick ==
    /\ kept.pc \in {"running", "finished"}
    /\ kept.now + ClockStep <= ClockEnd
    /\ kept.pc = "running" => kept.now + ClockStep - kept.began <= JOB_TIMEOUT
    /\ kept' = [kept EXCEPT !.now = @ + ClockStep]
    /\ UNCHANGED <<storeVars, workerVars, pagingVars, poll, resp, stream, answer,
                   agg, dec, wr, files, web, login, fast>>

\* The execution ends and run_job stores the result: after the closing
\* snapshot of scrape_task, or without it when job_timeout cancelled the task.
KeptFinish ==
    /\ kept.pc = "running"
    /\ \E closing \in BOOLEAN :
          /\ ~closing => kept.now - kept.began = JOB_TIMEOUT
          /\ kept' = [kept EXCEPT
                 !.pc = "finished",
                 !.closing = closing,
                 !.progress_until = IF closing THEN ProgressUntil(kept.now) ELSE @,
                 !.result_until = ResultUntil(kept.now)]
    /\ UNCHANGED <<storeVars, workerVars, pagingVars, poll, resp, stream, answer,
                   agg, dec, wr, files, web, login, fast>>

(***************************************************************************)
(* SpecKept: one execution, its result key and its progress key.           *)
(***************************************************************************)
NextKept ==
    \/ KeptBegin
    \/ KeptWrite
    \/ KeptTick
    \/ KeptFinish

SpecKept == Init /\ [][NextKept]_vars

(***************************************************************************)
(* SpecRepoll: one job, a worker that may be stopped and started, and a    *)
(* client that polls the job again and again.                              *)
(***************************************************************************)
NextRepoll ==
    \/ TriggerScrape(OneJob, {1}, {"a@x.io"}, {"pw"})
    \/ StartJob
    \/ StartJobExhausted
    \/ \E j \in OneJob :
          \/ ScrapeTaskBegin(j, {1})
          \/ RunScraperAdvance(j, PoolPoints)
          \/ RunScraperReturn(j)
          \/ RunScraperRaise(j, {0}, {"no_session"})
          \/ ScrapeTaskEnd(j, {"ok"})
          \/ ScrapeTaskReturn(j)
          \/ JobTimeout(j)
          \/ ExpireResult(j)
    \/ OrphanEnds
    \/ WorkerShutdown
    \/ WorkerStart
    \/ PollStatusAgain(OneJob)
    \/ PollRespond

SpecRepoll == Init /\ [][NextRepoll]_vars

(***************************************************************************)
(* THE EXPORT BUILD  (services/scraper.py, _build_export_json)             *)
(*                                                                         *)
(* A bulk extraction gives an exception or a JSON value.  A value is       *)
(* modelled by its type and, for a list, by the types of its elements.     *)
(***************************************************************************)
\* The call raised (the script failed, or the browser did).
FastRaised == [kind |-> "raised", type |-> "none", elems |-> <<>>]

\* The call returned a value of this type with these elements.
FastValue(type, elems) == [kind |-> "value", type |-> type, elems |-> elems]

\* A check that does not look at the length.
FastUsableAnyLength(res, total_students, elem) ==
    /\ res.kind = "value"
    /\ res.type = "list"
    /\ \A i \in 1..Len(res.elems) : res.elems[i] = elem

\* The checks after the three calls: the result is kept when it is a list of
\* total_students elements of the expected type, and set to None otherwise.
FastUsable(res, total_students, elem) ==
    /\ res.kind = "value"
    /\ res.type = "list"
    /\ Len(res.elems) = total_students
    /\ \A i \in 1..Len(res.elems) : res.elems[i] = elem

\* if fast and idx < len(fast): the bulk element, else the paginated
\* traversal of the student (idx counts from 0).
SourceOf(res, usable, idx) ==
    IF usable /\ Len(res.elems) > 0 /\ idx < Len(res.elems) THEN "fast" ELSE "pages"

\* The record of student idx: where each sub-list came from, the type of
\* what was stored as the items of the check-ins and the type of what was
\* stored as the point histories (the traversal gives a list of items and a
\* dict holding the list of items).
StudentRecord(daily, points, total_students, idx) ==
    LET d == SourceOf(daily, FastUsable(daily, total_students, "list"), idx)
        p == SourceOf(points, FastUsable(points, total_students, "dict"), idx)
    IN  [daily_checkins  |-> [source |-> d,
                              items |-> IF d = "fast" THEN daily.elems[idx + 1]
                                        ELSE "list"],
         point_histories |-> [source |-> p,
                              value |-> IF p = "fast" THEN points.elems[idx + 1]
                                        ELSE "dict"]]

\* _build_export_json over total_students students: the records, or the
\* exception of a paginated traversal that raised.
BuildExportJson(daily, points, total_students, traversal) ==
    LET records == [i \in 1..total_students |->
                       StudentRecord(daily, points, total_students, i - 1)]
        paged   == \E i \in 1..total_students :
                      \/ records[i].daily_checkins.source = "pages"
                      \/ records[i].point_histories.source = "pages"
    IN  IF paged /\ traversal = "raises"
        THEN [raised |-> TRUE, students |-> <<>>]
        ELSE [raised |-> FALSE, students |-> records]

(***************************************************************************)
(* SpecFast: one export build over given bulk results.                     *)
(***************************************************************************)
MaxStudents == 2

ElemTypes == {"list", "dict", "str"}

ElemSeqs == UNION {[1..n -> ElemTypes] : n \in 0..(MaxStudents + 1)}

\* What a bulk extraction may give.
FastResults ==
    {FastRaised, FastValue("null", <<>>), FastValue("dict", <<>>)}
        \cup {FastValue("list", e) : e \in ElemSeqs}

InitFast ==
    /\ pg = PagingIdle
    /\ StoreInit
    /\ WorkerInit
    /\ poll = NoPoll
    /\ resp = Empty
    /\ stream = NoStream
    /\ answer = Empty
    /\ agg = NoAggregate
    /\ dec = NoDecode
    /\ wr = NoWrite
    /\ files = NoFiles
    /\ web = NoRequest
    /\ login = NoLogin
    /\ kept = NoKept
    /\ \E daily \in FastResults, points \in FastResults, n \in 0..MaxStudents :
          fast = [pc |-> "input", daily |-> daily, points |-> points,
                  total_students |-> n, out |-> Empty]

\* The export is built; a paginated traversal returns its list or raises.
BuildExport ==
    /\ fast.pc = "input"
    /\ \E traversal \in {"returns", "raises"} :
          fast' = [fast EXCEPT
                     !.pc = "built",
                     !.out = BuildExportJson(fast.daily, fast.points,
                                             fast.total_students, traversal)]
    /\ UNCHANGED <<storeVars, workerVars, pagingVars, poll, resp, stream, answer,
                   agg, dec, wr, files, web, login, kept>>

NextFast == BuildExport

SpecFast == InitFast /\ [][NextFast]_vars

(***************************************************************************)
(* SpecBeat: one job and one observed stream reading it.                   *)
(***************************************************************************)
NextBeat ==
    \/ TriggerScrape(OneJob, {1}, {"a@x.io"}, {"pw"})
    \/ StartJob
    \/ \E j \in OneJob :
          \/ ScrapeTaskBegin(j, {1})
          \/ RunScraperAdvance(j, StreamPoints)
          \/ RunScraperReturn(j)
          \/ RunScraperInvalid(j)
          \/ ScrapeTaskEnd(j, {"ok"})
          \/ ScrapeTaskReturn(j)
    \/ StreamOpenTimed(OneJob)
    \/ StreamDisconnect
    \/ StreamCheck
    \/ StreamRound

SpecBeat == Init /\ [][NextBeat]_vars

(***************************************************************************)
(* SpecAggregate: _build_job_status as a function of what its lookups give. *)
(***************************************************************************)
\* The largest queue position drawn.
AggPositions == 2

\* JobStatus of arq: deferred, queued, in_progress, complete, not_found
JobStatuses == {"deferred", "queued", "in_progress", "complete", "not_found"}

\* What job.info() may give.
InfoInputs ==
    {NoInfo, NullInfo,
     ResultPayload([kind |-> "success"]),
     ResultPayload([kind |-> "invalid_credentials"]),
     ResultPayload([kind |-> "exception"])}

\* What the progress read may give: nothing, or a decoded snapshot.
ProgressInputs ==
    {{}, {Snapshot(1, "Initializing scraper...", 1, 100)},
         {StepSnapshot("Logging in...", 10, 100)}}

\* The job the status is asked for.
AggJob == 1

InitAggregate ==
    /\ pg = PagingIdle
    /\ StoreInit
    /\ WorkerInit
    /\ poll = NoPoll
    /\ resp = Empty
    /\ stream = NoStream
    /\ answer = Empty
    /\ login = NoLogin
    /\ kept = NoKept
    /\ fast = NoFast
    /\ dec = NoDecode
    /\ wr = NoWrite
    /\ files = NoFiles
    /\ web = NoRequest
    /\ \E st \in JobStatuses, pos \in 0..AggPositions,
          prog \in ProgressInputs, info \in InfoInputs :
          agg = [pc |-> "input", status |-> st, position |-> pos, prog |-> prog,
                 info |-> info, out |-> Empty]

\* The status is built.
Aggregate ==
    /\ agg.pc = "input"
    /\ agg' = [agg EXCEPT
                 !.pc = "built",
                 !.out = BuildStatus(AggJob, agg.status, agg.position, agg.prog, agg.info)]
    /\ UNCHANGED <<storeVars, workerVars, pagingVars, poll, resp, stream, answer, login, kept, fast,
                   dec, wr, files, web>>

NextAggregate == Aggregate

SpecAggregate == InitAggregate /\ [][NextAggregate]_vars

(***************************************************************************)
(* PROPERTIES OF ADMISSION  (SpecStatus, Spec)                             *)
(***************************************************************************)
\* The jobs that are queued or in progress.
InFlight == {j \in DOMAIN queue : StatusOf(j) \in {"queued", "in_progress"}}

\* C1: a submit whose email and password equal those of a job that is queued
\* or in progress creates no new job, so no two jobs in flight ever carry the
\* same email and password.
C1_NoEquivalentJobsInFlight ==
    \A a \in InFlight, b \in InFlight : a # b => jobdef[a] # jobdef[b]

\* C7: a submit with an empty password is rejected at validation, so no
\* stored job carries an empty password.
C7_NoJobWithEmptyPassword ==
    \A j \in DOMAIN jobdef : jobdef[j].password # ""

(***************************************************************************)
(* PROPERTIES OF THE PROGRESS ENTRY  (Spec)                                *)
(***************************************************************************)
\* C2: over the whole lifetime of a job, every write to its progress entry,
\* from the thread or from scrape_task and in whichever attempt, leaves a
\* percent that is not below the one it replaces.
C2_PercentNeverDecreases ==
    [][\A j \in DOMAIN progress :
          j \in DOMAIN progress' => progress'[j].percent >= progress[j].percent]_vars

\* C3: a job with a terminal outcome has a progress entry that holds 100.
C3_TerminalJobHoldsHundred ==
    \A j \in DOMAIN results :
        j \in DOMAIN progress /\ progress[j].percent = 100

(***************************************************************************)
(* PROPERTIES OF THE WORKER POOL  (SpecPool)                               *)
(***************************************************************************)
InProgressJobs == {j \in DOMAIN jobdef : StatusOf(j) = "in_progress"}

C9_AtMostThreeLiveThreads == LiveThreads <= max_jobs

(***************************************************************************)
(* PROPERTIES OF THE STATUS RESPONSE  (SpecStatus)                         *)
(***************************************************************************)
\* C10: queue_position is attached only to a queued status, is at least 1,
\* and is the 1-based index of the job among the jobs whose status is queued
\* when the queue is enumerated.
C10_PositionAmongQueuedJobs ==
    "queue_position" \in DOMAIN resp =>
        /\ resp.status = "queued"
        /\ resp.queue_position >= 1
        /\ poll.waiting_index # 0 => resp.queue_position = poll.waiting_index

\* C12: a job that ended with an exception shows, in its status response, a
\* result that is a structured record with success = false.
C12_FailureShownAsStructuredResult ==
    ("result" \in DOMAIN resp /\ resp.result.error_type = "exception")
        => (resp.result.type = "dict" /\ ~resp.result.success)

\* C18: a status request that was answered carries the job's status and its
\* running flag, whichever sub-lookup failed.
C18_StatusAnsweredDespiteFailures ==
    resp # Empty => {"status", "running"} \subseteq DOMAIN resp

\* C20: a status response has one of the five defined status values and
\* carries no exception, neither as its result nor in place of the response.
C20_DefinedStatusAndNoException ==
    resp # Empty =>
        /\ "status" \in DOMAIN resp
        /\ resp.status \in {"queued", "in_progress", "complete", "failed", "not_found"}
        /\ "result" \in DOMAIN resp => resp.result.type # "exception"

\* C17: the response for a complete job has running = false; when the stored
\* result is null its result is the synthesized failure; when the stored result
\* is not null its result is that stored result and its progress is pinned
\* to percent 100.
C17_CompleteResultOrSynthesis ==
    (agg.pc = "built" /\ agg.status = "complete") =>
        /\ "running" \in DOMAIN agg.out /\ ~agg.out.running
        /\ agg.info.type = "null" =>
              ("result" \in DOMAIN agg.out /\ agg.out.result = NoResultFailure)
        /\ agg.info.type \in {"dict", "exception"} =>
              /\ "result" \in DOMAIN agg.out /\ agg.out.result = agg.info
              /\ "progress" \in DOMAIN agg.out /\ agg.out.progress.percent = 100

\* A complete job with a null result was answered with the synthesized
\* failure.
C17_Witness ==
    /\ agg.pc = "built"
    /\ agg.status = "complete"
    /\ agg.info.type = "null"
    /\ "result" \in DOMAIN agg.out
    /\ agg.out.result.error_type = "no_result"
    /\ ~agg.out.result.success

(***************************************************************************)
(* PROPERTIES OF THE STREAM  (SpecStream)                                  *)
(***************************************************************************)
\* C19: the disconnection check that finds the client gone closes the stream
\* and emits nothing; a closed stream stays as it is; and no step of a status
\* poll or of a stream changes anything of the job store or of the worker.
C19_StreamAndPollLeaveJobsAlone ==
    [][/\ (stream.pc = "check" /\ ~stream.connected /\ stream' # stream) =>
             /\ stream'.pc = "closed"
             /\ stream'.last_payload = stream.last_payload
             /\ stream'.last_event = stream.last_event
             /\ stream'.terminal_events = stream.terminal_events
       /\ stream.pc = "closed" => stream' = stream
       /\ (poll' # poll \/ resp' # resp \/ stream' # stream) =>
             UNCHANGED <<storeVars, workerVars>>]_vars

\* A stream emitted a status of a job in flight, lost its client and closed
\* without a terminal event, and the job is still in the queue.
C19_Witness ==
    /\ stream.pc = "closed"
    /\ ~stream.connected
    /\ stream.last_payload # Empty
    /\ stream.terminal_events = 0
    /\ stream.job \in DOMAIN queue
    /\ resp # Empty

\* C4: a stream emits at most one complete or error event; once a poll has
\* been classified complete or error that event has been emitted and nothing
\* was emitted after the classification; a stream that ended with its client
\* connected emitted exactly one such event.
C4_OneTerminalEventThenClosed ==
    /\ stream.terminal_events <= 1
    /\ stream.terminal_seen => stream.terminal_events = 1
    /\ (stream.pc \in {"closed", "raised"} /\ stream.connected)
          => stream.terminal_events = 1
    /\ ~stream.data_after_terminal

\* The event name the classification is specified to give.
SpecifiedEventName(payload) ==
    IF payload.status = "not_found" \/ ResultSuccess(payload) = "false" THEN "error"
    ELSE IF payload.status = "complete" THEN "complete"
    ELSE IF "progress" \in DOMAIN payload THEN "progress"
    ELSE "status"

\* C16: an emitted status is named error when its status is not_found or its
\* result says success = false, complete when the job is otherwise terminal,
\* progress when a snapshot is attached, status in every other case.
C16_ClassifiedAsSpecified ==
    stream.last_event # "none" =>
        stream.last_event = SpecifiedEventName(stream.last_payload)

(***************************************************************************)
(* PROPERTIES OF A JOB'S OUTCOME  (Spec)                                   *)
(***************************************************************************)
\* C11: a job whose login the site rejected has the structured
\* invalid-credentials result that scrape_task returned, and is not in the
\* queue to be run again.
C11_RejectedLoginReturnsStructuredResult ==
    \A j \in DOMAIN results :
        results[j].extraction = "inv" =>
            /\ results[j].returned
            /\ results[j].kind = "invalid_credentials"
            /\ j \notin DOMAIN queue

\* C13: every remote browser session run_scraper created has been quit by the
\* time run_scraper returned or raised, whichever line raised.
C13_EverySessionQuit == leaked = 0

\* C14: a job that failed with an exception of the extraction has been
\* executed a second time before it is given up, and no job is started more
\* than max_tries times.
C14_FailedJobRunsAgain ==
    /\ \A j \in DOMAIN results :
          (results[j].kind = "exception" /\ results[j].extraction = "exc")
              => results[j].job_try = max_tries
    /\ \A j \in DOMAIN retry : retry[j] <= max_tries

\* C15: whatever happens to the audit log and the notification, a scrape that
\* returned gives the job its success result and a rejected login gives it
\* the invalid-credentials result.
C15_SinkFailureKeepsOutcome ==
    \A j \in DOMAIN results :
        /\ results[j].extraction = "ret" => results[j].kind = "success"
        /\ results[j].extraction = "inv" => results[j].kind = "invalid_credentials"

(***************************************************************************)
(* PROPERTIES OF THE PROGRESS READ  (SpecDecode)                           *)
(***************************************************************************)
\* C21: a legacy value written from integers p, s, t and a message m without
\* "|" reads as p, m, s, t with no updated_at; a structured value written
\* from a snapshot reads as that snapshot with its updated_at; and the
\* legacy form is tried only on a value the structured form did not read.
C21_BothWireShapesDecode ==
    dec.pc = "read" =>
        /\ dec.origin.kind = "legacy" =>
              /\ dec.out.outcome = "value"
              /\ dec.out.percent = dec.origin.percent
              /\ dec.out.message = dec.origin.message
              /\ dec.out.current_step = dec.origin.current_step
              /\ dec.out.total_steps = dec.origin.total_steps
              /\ dec.out.updated_at = JsonNull
        /\ dec.origin.kind = "structured" =>
              /\ dec.out.outcome = "value"
              /\ dec.out.via = "structured"
              /\ dec.out.percent = dec.origin.percent
              /\ dec.out.message = dec.origin.message
              /\ dec.out.current_step = dec.origin.current_step
              /\ dec.out.total_steps = dec.origin.total_steps
              /\ dec.out.updated_at = JsonStr(Stamp)
        /\ (dec.out.outcome = "value" /\ dec.out.via = "legacy") =>
              JsonLoads(dec.stored) = "JSONDecodeError"

\* The scenario of the specification: "42|m m|4|10" was read as 42, "m m", 4, 10.
C21_Witness ==
    /\ dec.pc = "read"
    /\ dec.origin.kind = "legacy"
    /\ dec.stored = Text(<<"4", "2", "|", "m", " ", "|", "4", "|", "1", "0">>)
    /\ dec.out.outcome = "value"
    /\ dec.out.percent = 42
    /\ dec.out.total_steps = 10

\* A stored value that the structured form reads.
StructuredReadable(stored) ==
    /\ stored.form = "object"
    /\ PyInt(stored.fields.percent, 0).ok
    /\ PyInt(stored.fields.current_step, 0).ok
    /\ PyInt(stored.fields.total_steps, 100).ok

\* A stored value of the form "p|m|s|t" with integer texts p, s, t.
LegacyReadable(stored) ==
    /\ stored.form = "text"
    /\ LET t == stored.text
           bars == {i \in 1..Len(t) : t[i] = "|"}
       IN  /\ Cardinality(bars) = 3
           /\ \E a, b, c \in bars :
                 /\ a < b /\ b < c
                 /\ IsIntText(SubSeq(t, 1, a - 1))
                 /\ IsIntText(SubSeq(t, b + 1, c - 1))
                 /\ IsIntText(SubSeq(t, c + 1, Len(t)))

\* C22: a stored value that is neither a readable structured snapshot nor a
\* readable legacy string is read as absent, and the read does not raise.
C22_MalformedValueReadsAbsent ==
    (dec.pc = "read" /\ ~StructuredReadable(dec.stored) /\ ~LegacyReadable(dec.stored))
        => dec.out.outcome = "absent"

(***************************************************************************)
(* PROPERTIES OF THE PROGRESS WRITE  (SpecWrite)                           *)
(***************************************************************************)
\* C23: every stored snapshot has an integer percent between 0 and 100,
\* whatever current_step and total_steps were reported, carries the time of
\* the write as updated_at, and is stored with an expiry of 7200 seconds.
C23_StoredPercentInRange ==
    wr.pc = "stored" =>
        /\ wr.stored.payload.percent \in 0..100
        /\ wr.stored.payload.updated_at = wr.now
        /\ wr.stored.payload.current_step = wr.current_step
        /\ wr.stored.payload.total_steps = wr.total_steps
        /\ wr.stored.ex = 7200

\* A report with total_steps = 0 and a current_step above it was stored at
\* 100 percent.
C23_Witness ==
    /\ wr.pc = "stored"
    /\ wr.via = "on_step_progress"
    /\ wr.total_steps = 0
    /\ wr.current_step > 1
    /\ wr.stored.payload.percent = 100

(***************************************************************************)
(* PROPERTIES OF THE RESPONSES  (SpecSecrets)                              *)
(***************************************************************************)
\* The members of a response that hold text.
TextMembers ==
    {"status", "message", "function", "type", "error_type", "email", "password"}

TextsIn(r) == {r[f] : f \in DOMAIN r \cap TextMembers}

\* The texts of a unified status, of its result and of its progress.
StatusTexts(r) ==
    TextsIn(r)
        \cup (IF "result" \in DOMAIN r THEN TextsIn(r.result) ELSE {})
        \cup (IF "progress" \in DOMAIN r THEN TextsIn(r.progress) ELSE {})

\* The texts of a submit response or of a queue listing.
AnswerTexts(r) ==
    IF "jobs" \in DOMAIN r
    THEN UNION {TextsIn(r.jobs[i]) : i \in DOMAIN r.jobs}
    ELSE TextsIn(r)

\* C24: no response of the submit, queue-listing, status or stream operations
\* holds a submitted password or email, in any state of the job; so the
\* responses are the same whatever password was submitted.
C24_ResponsesHoldNoCredential ==
    (StatusTexts(resp) \cup StatusTexts(stream.last_payload) \cup AnswerTexts(answer))
        \cap (SecretPasswords \cup SecretEmails) = {}

\* A job submitted with a password has finished, and a poll and a stream
\* have answered with its result.
C24_Witness ==
    /\ accepted # <<>>
    /\ answer # Empty
    /\ "result" \in DOMAIN resp
    /\ resp.result.type = "dict"
    /\ "result" \in DOMAIN stream.last_payload

(***************************************************************************)
(* PROPERTIES OF THE EXPORT  (SpecExport)                                  *)
(***************************************************************************)
\* C25: no two jobs write the same file name, and the file a job reported
\* is still the one it wrote.
C25_NoArtifactOverwritten ==
    /\ \A a, b \in DOMAIN files.written :
          a # b => files.written[a] # files.written[b]
    /\ \A j \in DOMAIN files.written : files.dir[files.written[j]] = j

(***************************************************************************)
(* PROPERTIES OF THE DATA ENDPOINTS  (SpecFiles)                           *)
(***************************************************************************)
\* C26: GET /students answers 404 when the directory holds no file, GET
\* /files/<name> answers 404 when the file is missing or holds no data, and
\* 500 is answered only when a file that exists could not be read.
C26_MissingDataIsNotFound ==
    web.pc = "answered" =>
        /\ (web.op = "students" /\ DOMAIN web.dir = {}) => web.code = 404
        /\ (web.op = "file" /\ web.name \notin DOMAIN web.dir) => web.code = 404
        /\ (web.op = "file" /\ web.name \in DOMAIN web.dir
                /\ web.dir[web.name].kind = "empty") => web.code = 404
        /\ web.code = 500 =>
              \E f \in DOMAIN web.dir : web.dir[f].kind \in {"invalid", "unreadable"}

(***************************************************************************)
(* PROPERTIES OF THE START ORDER  (SpecFifo)                               *)
(***************************************************************************)
\* The jobs a step starts, and the jobs that wait and were never started.
StartedNow == in_progress' \ in_progress

NeverStarted == {j \in DOMAIN queue : j \notin in_progress /\ j \notin DOMAIN retry}

AcceptedBefore(a, b) ==
    \E i, k \in 1..Len(accepted) : i < k /\ accepted[i] = a /\ accepted[k] = b

\* C27: a job is never started while a job that was accepted before it has
\* not been started.
C27_StartInAcceptedOrder ==
    [][\A b \in StartedNow \cap NeverStarted :
          \A a \in NeverStarted : ~AcceptedBefore(a, b)]_vars

\* C27, amended: a job is never started while a job with an earlier enqueue
\* millisecond has not been started; jobs of the same millisecond start in
\* the order of their ids.
C27_StartInEnqueueTimeOrder ==
    [][\A b \in StartedNow \cap NeverStarted :
          \A a \in NeverStarted \ {b} :
              /\ queue[a] >= queue[b]
              /\ (queue[a] = queue[b] => b < a)]_vars

\* A job of an earlier millisecond runs while a job accepted later waits.
C27_Witness ==
    \E a \in in_progress, b \in NeverStarted :
        /\ queue[a] < queue[b]
        /\ AcceptedBefore(a, b)

(***************************************************************************)
(* PROPERTIES OF THE OBSERVED STREAM  (SpecBeat)                           *)
(***************************************************************************)
\* A round of the observed stream that got as far as its events.
EventRound ==
    /\ stream.pc = "status_read"
    /\ stream.timed
    /\ stream'.pc \in {"check", "closed"}

\* C29: a heartbeat is emitted only when the stream emitted no event of any
\* kind, data or heartbeat, during the preceding 15 seconds.
C29_HeartbeatOnlyAfterSilence ==
    [][(EventRound /\ stream'.beat) =>
          (~stream'.told /\ stream.quiet >= HeartbeatTicks)]_vars

\* C29, amended: a heartbeat is emitted only when the stream emitted no
\* heartbeat during the preceding 15 seconds, counted from the opening of
\* the stream before its first heartbeat.
C29_HeartbeatOnlyAfterHeartbeatInterval ==
    [][(EventRound /\ stream'.beat) =>
          stream.since_heartbeat >= HEARTBEAT_SECONDS * SLEEPS_PER_SECOND]_vars

\* A round emitted a heartbeat and the stream goes on.
C29_Witness ==
    /\ stream.timed
    /\ stream.beat
    /\ stream.pc = "check"
    /\ stream.since_heartbeat < HeartbeatTicks

\* C30: a round emits a data event exactly when the status it serialized
\* differs from the last one emitted, the first round always emits, and an
\* emitted status differs from the one emitted before it.
C30_DataEventExactlyOnChange ==
    [][EventRound =>
          /\ stream'.told <=> (stream'.polled # stream.last_payload)
          /\ stream.last_payload = Empty => stream'.told
          /\ stream'.told =>
                /\ stream'.last_payload = stream'.polled
                /\ stream'.last_payload # stream.last_payload
          /\ ~stream'.told => stream'.last_payload = stream.last_payload]_vars

\* A round polled the status it had emitted before and emitted no data event.
C30_Witness ==
    /\ stream.timed
    /\ stream.pc = "check"
    /\ ~stream.told
    /\ stream.polled # Empty
    /\ stream.polled = stream.last_payload

(***************************************************************************)
(* PROPERTIES OF THE FAIRLY SCHEDULED STREAM  (SpecLive)                   *)
(***************************************************************************)
\* The job of the stream has a terminal status; the generator is over.
JobTerminal == StatusOf(stream.job) \in {"complete", "not_found"}

StreamOver == stream.pc \notin {"check", "status_read"}

\* C31: a stream whose job stays at a terminal status (any outcome of the
\* job: success, rejected login, failure, timeout, expiry) or whose client
\* has gone ends: its generator returns or raises.
C31_StreamTerminates ==
    (<>[]JobTerminal \/ <>[](~stream.connected)) => <>[]StreamOver

\* A stream ended after its job ran into the execution timeout.
C31_Witness ==
    /\ stream.pc \in {"closed", "raised"}
    /\ stream.job \in DOMAIN results
    /\ results[stream.job].kind = "timeout"

(***************************************************************************)
(* PROPERTIES OF THE LOGIN  (SpecLogin)                                    *)
(***************************************************************************)
\* C32: the login wait ends with InvalidCredentialsError only for an error
\* indicator on the login view or for the deadline passing on the login
\* view; a lost browser session or any other fault during the wait ends it
\* with another exception.
C32_InvalidCredentialsOnlyWhenRejected ==
    (login.pc = "done" /\ login.out = "InvalidCredentialsError") =>
        login.cause \in {"indicator", "deadline"}

\* C38: the credentials typed into the login form are the email and the
\* password submitted with the job.
C38_LogsInWithSubmittedCredentials ==
    login.pc \in {"wait", "done"} /\ login.typed_email # "" =>
        /\ login.typed_email = login.email
        /\ login.typed_password = login.password

(***************************************************************************)
(* PROPERTIES OF THE JOB EVENTS  (Spec)                                    *)
(***************************************************************************)
\* The executions that end with this step: run_job stores their result.
EndingNow == {j \in DOMAIN task : j \notin DOMAIN task' /\ j \in DOMAIN results'}

IsTerminalEvent(e) == e \in {"completed", "failed"}

\* C33: an execution that ends has handed over exactly one terminal event,
\* "completed" when the scrape succeeded and "failed" otherwise (rejected
\* login, other exception, execution timeout), and "completed" only after
\* "started".
C33_OneTerminalEventPerExecution ==
    [][\A j \in EndingNow :
          LET closing == SelectSeq(events[j], IsTerminalEvent)
          IN  /\ Len(closing) = 1
              /\ (closing[1] = "completed") <=> (results'[j].kind = "success")
              /\ closing[1] = "completed" => events[j][1] = "started"]_vars

(***************************************************************************)
(* PROPERTIES OF THE RETENTION  (SpecKept)                                 *)
(***************************************************************************)
\* C34: while the progress entry of a finished job exists, the status of
\* the job is complete: the result is kept at least as long as the progress.
C34_ResultOutlivesProgress ==
    (kept.pc = "finished" /\ HasProgress) => KeptStatus = "complete"

\* C34, amended: while the result of a job that finished by running exists,
\* its progress entry exists: the progress is kept at least as long as the
\* result, and outlives it.
C34_ProgressOutlivesResult ==
    (kept.pc = "finished" /\ HasResult) => HasProgress

\* The last second of the result of an execution that timed out, whose only
\* snapshot is the one written at its start.
C34_Witness ==
    /\ kept.pc = "finished"
    /\ ~kept.closing
    /\ kept.progress_until = ProgressUntil(kept.began)
    /\ kept.now + ClockStep = kept.result_until
    /\ HasResult

(***************************************************************************)
(* PROPERTIES OF THE JOBS' ENTRIES  (SpecPool)                             *)
(***************************************************************************)
\* The value of an entry, or a mark when there is none.
EntryOf(f, k) == IF k \in DOMAIN f THEN <<f[k]>> ELSE <<>>

\* The jobs whose task or thread moved in this step.
ActingNow ==
    {j \in PoolIds : \/ EntryOf(task, j) # EntryOf(task', j)
                     \/ EntryOf(thread, j) # EntryOf(thread', j)}

\* C35: a step that writes a progress entry is a step of the job the entry
\* is keyed by, and it changes no other job's progress entry, result, task
\* or thread, nor the paging session.
C35_ProgressWriteStaysWithItsJob ==
    [][\A k \in PoolIds \cup {0} :
          EntryOf(progress, k) # EntryOf(progress', k) =>
              /\ k \in ActingNow
              /\ pg' = pg
              /\ \A o \in (PoolIds \cup {0}) \ {k} :
                    /\ EntryOf(progress, o) = EntryOf(progress', o)
                    /\ EntryOf(results, o) = EntryOf(results', o)
                    /\ EntryOf(task, o) = EntryOf(task', o)
                    /\ EntryOf(thread, o) = EntryOf(thread', o)]_vars

\* Two running jobs hold different progress entries.
C35_Witness ==
    \E a, b \in DOMAIN progress :
        /\ a # b
        /\ Alive(a)
        /\ Alive(b)
        /\ progress[a] # progress[b]

(***************************************************************************)
(* PROPERTIES OF THE RUNNING FLAG  (SpecAggregate)                         *)
(***************************************************************************)
\* C36: every status response carries the running flag, true exactly for
\* queued and in_progress; a not_found response carries a null result and
\* the message "Job not found or expired.".
C36_RunningFlagFollowsStatus ==
    agg.pc = "built" =>
        /\ "running" \in DOMAIN agg.out
        /\ agg.out.running <=> agg.status \in {"queued", "in_progress"}
        /\ agg.status = "not_found" =>
              /\ "result" \in DOMAIN agg.out /\ agg.out.result = NullResult
              /\ "message" \in DOMAIN agg.out
              /\ agg.out.message = "Job not found or expired."

\* A deferred job was answered: not running.
C36_Witness ==
    /\ agg.pc = "built"
    /\ agg.status = "deferred"
    /\ "running" \in DOMAIN agg.out
    /\ ~agg.out.running

(***************************************************************************)
(* PROPERTIES OF REPEATED POLLS  (SpecRepoll)                              *)
(***************************************************************************)
\* A poll of the job is answered with this step.
AnsweredNow == poll.pc = "status_read" /\ poll'.pc = "idle" /\ resp' # Raised

\* C37: once a poll was answered in_progress no later poll is answered
\* queued, and once a poll was answered complete no later poll is answered
\* queued or in_progress.
C37_StatusOnlyMovesForward ==
    [][AnsweredNow =>
          /\ "in_progress" \in poll.seen => resp'.status # "queued"
          /\ "complete" \in poll.seen =>
                resp'.status \notin {"queued", "in_progress"}]_vars

\* A poll reads the status it will be answered with.
ReadNow == poll.pc = "idle" /\ poll'.pc = "status_read"

\* C37, amended: once a poll was answered complete no later poll is
\* answered queued or in_progress; after in_progress a poll is answered
\* queued only when it read the status of a job that had been started and
\* was put back by a worker that stopped while it ran.
C37_ForwardButForRestarts ==
    [][ReadNow =>
          /\ ("in_progress" \in poll.seen /\ poll'.status = "queued") =>
                /\ poll'.job \in DOMAIN retry
                /\ retry[poll'.job] >= 1
                /\ poll'.job \notin DOMAIN task
          /\ "complete" \in poll.seen =>
                poll'.status \notin {"queued", "in_progress"}]_vars

\* The latest poll of a job was answered queued after an earlier one was
\* answered in_progress: the job waits for its second start.
C37_Witness ==
    /\ poll.pc = "idle"
    /\ resp # Empty /\ resp # Raised
    /\ resp.status = "queued"
    /\ "in_progress" \in poll.seen
    /\ poll.job \in DOMAIN retry
    /\ poll.job \notin in_progress

(***************************************************************************)
(* PROPERTIES OF THE EXPORT BUILD  (SpecFast)                              *)
(***************************************************************************)
\* A bulk result that raised, is no list, has another length than the
\* number of students, or holds an element of another type than elem.
Malformed(res, n, elem) ==
    \/ res.kind = "raised"
    \/ res.type # "list"
    \/ Len(res.elems) # n
    \/ \E i \in 1..Len(res.elems) : res.elems[i] # elem

Returned == Range(pg.items)

\* Every fingerprint on any page of the list.
ListKeys == KeysUpTo(pg.pages, pg.repeats)

\* C40 as stated: a traversal of a list of at most 300 pages whose next
\* control is enabled until the last page, every activation showing the
\* following page in time, returns every distinct fingerprint of the list,
\* also when consecutive pages show only rows already collected.
C40_ReturnsEveryRowOfTheList ==
    (pg.pc = "done" /\ pg.slow = 0) =>
        Returned = ListKeys

\* C40 amended: the traversal returns the fingerprints of the pages it has
\* read, and these are all the fingerprints of the list unless it stopped
\* after two consecutive rounds that added nothing or used up its 300 rounds.
C40_EveryRowUnlessStaleOrOutOfRounds ==
    pg.pc = "done" =>
        /\ Returned = KeysUpTo(pg.read, pg.repeats)
        /\ Returned # ListKeys =>
              \/ pg.exit = "stale" /\ pg.stale_rounds = STALE_LIMIT
              \/ pg.exit = "cap" /\ pg.rounds = MAX_PAGINATION_STEPS

\* The traversal stopped on two consecutive pages of rows it already had,
\* every activation having shown the following page in time, with a row on a
\* later page it never read.
C40_Witness ==
    /\ pg.pc = "done"
    /\ pg.exit = "stale"
    /\ pg.slow = 0
    /\ pg.read < pg.pages
    /\ Returned # ListKeys

====
